---------------------------- MODULE Spec2Model ----------------------------
(***************************************************************************)
(* The dynamic mapping engine of csv-etl                                   *)
(* (src/src/converter/transformers/dynamic.py): the Filter Engine          *)
(* (should_skip), the Field Transformer (transform_value), the Row         *)
(* Processor (transform_row) and the File Processor (_process_file, entered  *)
(* through validate_file and transform_file).                              *)
(*                                                                         *)
(* Encoding of Python values.                                              *)
(*   str        a sequence of one-character strings, "BUY" is              *)
(*              <<"B","U","Y">>; the empty string is <<>>.                 *)
(*   None       (as a cell or a scalar) the sequence None == <<"None">>,    *)
(*              which is no str because "None" is not one character.       *)
(*   dict       a function whose domain is the set of keys; {} is <<>>.    *)
(*   list|None  a record [tag, items], tag "list" or "null"                *)
(*   dict|None  a record [tag, d], tag "dict" or "null".                   *)
(* Names that the code only compares with literals (transform types,       *)
(* filter operators, destination fields) are TLA+ strings.                 *)
(***************************************************************************)
EXTENDS Integers, Sequences, FiniteSets, TLC

(***************************************************************************)
(* Bounds of the model.                                                    *)
(***************************************************************************)
\* the largest number of data rows an input file holds
MaxRows == 3

(***************************************************************************)
(* Python values.                                                          *)
(***************************************************************************)
None == <<"None">>

\* bool(v) is False for None and for the empty string
Falsy(v) == v = None \/ v = <<>>

\* str(v)
Str(v) == IF v = None THEN <<"N", "o", "n", "e">> ELSE v

\* d.get(k, default) on a dict
Get(d, k, default) == IF k \in DOMAIN d THEN d[k] ELSE default

\* variant: only the start of s is compared
IsSubstring_AtStart(x, s) ==
    Len(x) <= Len(s) /\ SubSeq(s, 1, Len(x)) = x

\* x in s, for two strings: s has x as a contiguous substring
IsSubstring(x, s) ==
    \E i \in 0..(Len(s) - Len(x)) : SubSeq(s, i + 1, i + Len(x)) = x

\* c in s, for one character
HasChar(s, c) == \E i \in 1..Len(s) : s[i] = c

\* s.replace(c, "") for one character c
RECURSIVE RemoveChar(_, _)
RemoveChar(s, c) ==
    IF s = <<>> THEN <<>>
    ELSE IF Head(s) = c THEN RemoveChar(Tail(s), c)
         ELSE <<Head(s)>> \o RemoveChar(Tail(s), c)

\* s.split(c)[0]: the part of s before the first c
RECURSIVE SplitFirst(_, _)
SplitFirst(s, c) ==
    IF s = <<>> \/ Head(s) = c THEN <<>>
    ELSE <<Head(s)>> \o SplitFirst(Tail(s), c)

NullList == [tag |-> "null", items |-> <<>>]
List(xs) == [tag |-> "list", items |-> xs]
NullDict == [tag |-> "null", d |-> <<>>]
\* a value that is neither a dict nor null where a dict is expected (a list,
\* a text): it has no .get
NotADict == [tag |-> "other", d |-> <<>>]
Dict(f) == [tag |-> "dict", d |-> f]

(***************************************************************************)
(* Strings of the input tables and of the mapping configurations.          *)
(***************************************************************************)
sBUY == <<"B", "U", "Y">>
sSELL == <<"S", "E", "L", "L">>
sDEPOSIT == <<"D", "E", "P">>
sGoodDate == <<"2", "0", "2", "0", "-", "0", "2">>
sBadDate == <<"0", "2", "/", "2", "0">>
cDate == <<"D", "a", "t", "e">>
cType == <<"T", "y", "p", "e">>
cFee == <<"F", "e", "e">>
kValue == <<"v", "a", "l", "u", "e">>
kDefault == <<"_", "d", "e", "f", "a", "u", "l", "t">>
kInputFormat == <<"i", "n", "p", "u", "t", "_", "f", "o", "r", "m", "a", "t">>
kOutputFormat == <<"o", "u", "t", "p", "u", "t", "_", "f", "o", "r", "m", "a", "t">>
fmtYearMonth == <<"%", "Y", "-", "%", "m">>
fmtMonthYear == <<"%", "m", "/", "%", "Y">>
\* the defaults of date_format, "%Y-%m-%dT%H:%M:%S" and "%Y-%m-%d"
fmtDefaultIn ==
    <<"%", "Y", "-", "%", "m", "-", "%", "d", "T", "%", "H", ":", "%", "M", ":", "%", "S">>
fmtDefaultOut == <<"%", "Y", "-", "%", "m", "-", "%", "d">>

(***************************************************************************)
(* Filter Engine.                                                          *)
(***************************************************************************)
\* one pass of the loop body of should_skip: "match" (return True),
\* "nomatch" (next rule) or "raise" (TypeError of `in` on None)
RuleOutcome(rule, row) ==
    LET row_value == Get(row, rule.field, None)
        operator == rule.operator
        values == rule.values
        value == rule.value
    IN  CASE operator = "equals" ->
                IF row_value = value THEN "match" ELSE "nomatch"
          [] operator = "not_equals" ->
                IF row_value # value THEN "match" ELSE "nomatch"
          [] operator = "in" ->
                IF values.tag = "null" THEN "raise"
                ELSE IF \E i \in 1..Len(values.items) : values.items[i] = row_value
                     THEN "match" ELSE "nomatch"
          [] operator = "not_in" ->
                IF values.tag = "null" THEN "raise"
                ELSE IF ~\E i \in 1..Len(values.items) : values.items[i] = row_value
                     THEN "match" ELSE "nomatch"
          [] operator = "is_empty" ->
                IF Falsy(row_value) THEN "match" ELSE "nomatch"
          [] operator = "is_not_empty" ->
                IF ~Falsy(row_value) THEN "match" ELSE "nomatch"
          [] operator = "contains" ->
                IF ~Falsy(value) /\ IsSubstring(value, Str(row_value))
                THEN "match" ELSE "nomatch"
          [] OTHER -> "nomatch"

\* should_skip over the rules from index i on: "skip" (True), "keep" (False)
\* or "raise"
RECURSIVE SkipFrom(_, _, _)
SkipFrom(rules, i, row) ==
    IF i > Len(rules) THEN "keep"
    ELSE LET o == RuleOutcome(rules[i], row)
         IN  IF o = "match" THEN "skip"
             ELSE IF o = "raise" THEN "raise"
             ELSE SkipFrom(rules, i + 1, row)

should_skip(filter_rules, row) == SkipFrom(filter_rules, 1, row)

(***************************************************************************)
(* datetime.strptime and strftime, for the directives %Y %m %d %H %M %S    *)
(* and literal characters.                                                 *)
(***************************************************************************)
Digits == <<"0", "1", "2", "3", "4", "5", "6", "7", "8", "9">>

IsDigit(c) == \E k \in 1..10 : Digits[k] = c

DigitVal(c) == (CHOOSE k \in 1..10 : Digits[k] = c) - 1

\* the value of the n digits of s that start at index i, -1 if they are not
\* n digits
NumAt(s, i, n) ==
    IF i + n - 1 > Len(s) \/ \E k \in i..(i + n - 1) : ~IsDigit(s[k]) THEN -1
    ELSE IF n = 1 THEN DigitVal(s[i])
    ELSE IF n = 2 THEN 10 * DigitVal(s[i]) + DigitVal(s[i + 1])
    ELSE 1000 * DigitVal(s[i]) + 100 * DigitVal(s[i + 1])
         + 10 * DigitVal(s[i + 2]) + DigitVal(s[i + 3])

\* the two-digit and one-digit alternatives of a directive's pattern
TwoDigitRange(dir) ==
    CASE dir = "m" -> 1..12
      [] dir = "d" -> 1..31
      [] dir = "H" -> 0..23
      [] dir = "M" -> 0..59
      [] dir = "S" -> 0..61

OneDigitRange(dir) == IF dir \in {"m", "d"} THEN 1..9 ELSE 0..9

NoMatch == [ok |-> FALSE, end |-> 0, Y |-> 1900, m |-> 1, d |-> 1]

SetField(acc, dir, v) ==
    CASE dir = "Y" -> [acc EXCEPT !.Y = v]
      [] dir = "m" -> [acc EXCEPT !.m = v]
      [] dir = "d" -> [acc EXCEPT !.d = v]
      [] OTHER -> acc

\* the regular-expression match of format fmt (from index j) against s (from
\* index i): the first match in the order the pattern's alternatives are tried
RECURSIVE MatchFrom(_, _, _, _, _)
MatchFrom(s, i, fmt, j, acc) ==
    IF j > Len(fmt) THEN [acc EXCEPT !.ok = TRUE, !.end = i - 1]
    ELSE IF fmt[j] # "%" THEN
        IF i <= Len(s) /\ s[i] = fmt[j] THEN MatchFrom(s, i + 1, fmt, j + 1, acc)
        ELSE NoMatch
    ELSE IF j = Len(fmt) THEN NoMatch
    ELSE LET dir == fmt[j + 1] IN
        IF dir = "Y" THEN
            IF NumAt(s, i, 4) >= 0
            THEN MatchFrom(s, i + 4, fmt, j + 2, SetField(acc, dir, NumAt(s, i, 4)))
            ELSE NoMatch
        ELSE IF dir \in {"m", "d", "H", "M", "S"} THEN
            LET two == IF NumAt(s, i, 2) \in TwoDigitRange(dir)
                       THEN MatchFrom(s, i + 2, fmt, j + 2,
                                      SetField(acc, dir, NumAt(s, i, 2)))
                       ELSE NoMatch
            IN  IF two.ok THEN two
                ELSE IF NumAt(s, i, 1) \in OneDigitRange(dir)
                THEN MatchFrom(s, i + 1, fmt, j + 2, SetField(acc, dir, NumAt(s, i, 1)))
                ELSE NoMatch
        ELSE NoMatch

IsLeap(y) == (y % 4 = 0 /\ y % 100 # 0) \/ y % 400 = 0

DaysInMonth(y, m) ==
    IF m = 2 THEN (IF IsLeap(y) THEN 29 ELSE 28)
    ELSE IF m \in {4, 6, 9, 11} THEN 30 ELSE 31

\* datetime.strptime(s, fmt): ok = FALSE stands for ValueError (no match,
\* unconverted data remains, day out of range for month)
strptime(s, fmt) ==
    LET r == MatchFrom(s, 1, fmt, 1, NoMatch)
    IN  IF r.ok /\ r.end = Len(s) /\ r.d <= DaysInMonth(r.Y, r.m) THEN r
        ELSE NoMatch

TwoDigits(n) == <<Digits[(n \div 10) + 1], Digits[(n % 10) + 1]>>

FourDigits(n) == TwoDigits(n \div 100) \o TwoDigits(n % 100)

\* dt.strftime(fmt)
RECURSIVE strftime(_, _)
strftime(dt, fmt) ==
    IF fmt = <<>> THEN <<>>
    ELSE IF Head(fmt) = "%" /\ Len(fmt) >= 2 THEN
        LET dir == fmt[2]
            rest == strftime(dt, SubSeq(fmt, 3, Len(fmt)))
        IN  CASE dir = "Y" -> FourDigits(dt.Y) \o rest
              [] dir = "m" -> TwoDigits(dt.m) \o rest
              [] dir = "d" -> TwoDigits(dt.d) \o rest
              [] OTHER -> TwoDigits(0) \o rest
    ELSE <<Head(fmt)>> \o strftime(dt, Tail(fmt))

(***************************************************************************)
(* Text helpers shared by the formula and the condition evaluators.        *)
(***************************************************************************)
Letters ==
    {"a", "b", "c", "d", "e", "f", "g", "h", "i", "j", "k", "l", "m", "n", "o",
     "p", "q", "r", "s", "t", "u", "v", "w", "x", "y", "z",
     "A", "B", "C", "D", "E", "F", "G", "H", "I", "J", "K", "L", "M", "N", "O",
     "P", "Q", "R", "S", "T", "U", "V", "W", "X", "Y", "Z"}

\* \w of the re module, for ASCII text
IsWordChar(c) == c \in Letters \/ IsDigit(c) \/ c = "_"

IsSpace(c) == c = " "

\* the first index from i on that holds no blank, Len(s) + 1 if none
RECURSIVE SkipSpaces(_, _)
SkipSpaces(s, i) ==
    IF i <= Len(s) /\ IsSpace(s[i]) THEN SkipSpaces(s, i + 1) ELSE i

\* the index after the run of digits that starts at i
RECURSIVE DigitsEnd(_, _)
DigitsEnd(s, i) ==
    IF i <= Len(s) /\ IsDigit(s[i]) THEN DigitsEnd(s, i + 1) ELSE i

\* the index after the run of word characters that starts at i
RECURSIVE WordEnd(_, _)
WordEnd(s, i) ==
    IF i <= Len(s) /\ IsWordChar(s[i]) THEN WordEnd(s, i + 1) ELSE i

\* the number written by the digits s[i..j-1], 0 for no digit
RECURSIVE DecimalValue(_, _, _)
DecimalValue(s, i, j) ==
    IF j <= i THEN 0
    ELSE 10 * DecimalValue(s, i, j - 1) + DigitVal(s[j - 1])

RECURSIVE Power10(_)
Power10(k) == IF k = 0 THEN 1 ELSE 10 * Power10(k - 1)

\* s.replace(old, new) for a non-empty old: every occurrence, left to right
RECURSIVE Replace(_, _, _)
Replace(s, old, new) ==
    IF Len(s) < Len(old) THEN s
    ELSE IF SubSeq(s, 1, Len(old)) = old
         THEN new \o Replace(SubSeq(s, Len(old) + 1, Len(s)), old, new)
         ELSE <<Head(s)>> \o Replace(Tail(s), old, new)

\* s.strip(): blanks off both ends
RECURSIVE Strip(_)
Strip(s) ==
    IF s = <<>> THEN s
    ELSE IF IsSpace(Head(s)) THEN Strip(Tail(s))
    ELSE IF IsSpace(s[Len(s)]) THEN Strip(SubSeq(s, 1, Len(s) - 1))
    ELSE s

(***************************************************************************)
(* float(value) and str(float), for plain decimal text: an optional sign,  *)
(* digits, an optional fraction.  Exponents, inf, nan and digit            *)
(* separators are left out, and so are magnitudes that str writes with an  *)
(* exponent.                                                               *)
(***************************************************************************)
\* float(text): [ok, neg, int, frac] with the digits of both parts, ok
\* FALSE for ValueError
ParseFloat(text) ==
    LET s == Strip(text)
        signed == s # <<>> /\ Head(s) \in {"-", "+"}
        i == IF signed THEN 2 ELSE 1
        j == DigitsEnd(s, i)
        dot == j <= Len(s) /\ s[j] = "."
        k == IF dot THEN DigitsEnd(s, j + 1) ELSE j
        ndigits == (j - i) + (IF dot THEN k - j - 1 ELSE 0)
    IN  [ok |-> ndigits > 0 /\ k = Len(s) + 1,
         neg |-> signed /\ Head(s) = "-",
         int |-> SubSeq(s, i, j - 1),
         frac |-> IF dot THEN SubSeq(s, j + 1, k - 1) ELSE <<>>]

\* digits without the leading zeros
RECURSIVE DropLeadingZeros(_)
DropLeadingZeros(d) ==
    IF d # <<>> /\ Head(d) = "0" THEN DropLeadingZeros(Tail(d)) ELSE d

\* digits without the trailing zeros
RECURSIVE DropTrailingZeros(_)
DropTrailingZeros(d) ==
    IF d # <<>> /\ d[Len(d)] = "0" THEN DropTrailingZeros(SubSeq(d, 1, Len(d) - 1))
    ELSE d

\* str(float(text)) for a text ParseFloat accepts
StrFloat(f) ==
    LET int == DropLeadingZeros(f.int)
        frac == DropTrailingZeros(f.frac)
    IN  (IF f.neg THEN <<"-">> ELSE <<>>)
        \o (IF int = <<>> THEN <<"0">> ELSE int)
        \o <<".">>
        \o (IF frac = <<>> THEN <<"0">> ELSE frac)

(***************************************************************************)
(* eval(text, {"__builtins__": {}}, {}) for the expressions made of        *)
(* decimal literals, quoted strings without escapes, names, parentheses,   *)
(* unary and binary + and -, * and /.  A value is <<"int", n, 1>>,         *)
(* <<"float", n, d>> (the fraction n/d in lowest terms, arithmetic taken   *)
(* as exact), <<"str", text>> or <<"error">> for an exception raised by    *)
(* the evaluation.  A name is an identifier that is not a keyword: with no *)
(* builtins and no locals it raises NameError.                             *)
(***************************************************************************)
Raised == <<"error">>

SyntaxError == [ok |-> FALSE, pos |-> 0, v |-> Raised]

ParseOk(pos, v) == [ok |-> TRUE, pos |-> pos, v |-> v]

Abs(n) == IF n < 0 THEN -n ELSE n

RECURSIVE Gcd(_, _)
Gcd(a, b) == IF b = 0 THEN a ELSE Gcd(b, a % b)

\* the number n/d, d # 0, in lowest terms with a positive denominator
Number(kind, n, d) ==
    LET g == Gcd(Abs(n), Abs(d))
        sign == IF d < 0 THEN -1 ELSE 1
    IN  <<kind, sign * (n \div g), Abs(d) \div g>>

IsNumber(v) == v[1] \in {"int", "float"}

\* text * n
RECURSIVE Repeat(_, _)
Repeat(text, n) == IF n <= 0 THEN <<>> ELSE text \o Repeat(text, n - 1)

\* a op b
BinaryOp(op, a, b) ==
    IF a = Raised \/ b = Raised THEN Raised
    ELSE IF IsNumber(a) /\ IsNumber(b) THEN
        LET kind == IF a[1] = "int" /\ b[1] = "int" /\ op # "/" THEN "int"
                    ELSE "float"
        IN  CASE op = "+" -> Number(kind, a[2] * b[3] + b[2] * a[3], a[3] * b[3])
              [] op = "-" -> Number(kind, a[2] * b[3] - b[2] * a[3], a[3] * b[3])
              [] op = "*" -> Number(kind, a[2] * b[2], a[3] * b[3])
              [] op = "/" -> IF b[2] = 0 THEN Raised
                             ELSE Number(kind, a[2] * b[3], a[3] * b[2])
    ELSE IF a[1] = "str" /\ b[1] = "str" /\ op = "+" THEN <<"str", a[2] \o b[2]>>
    ELSE IF a[1] = "str" /\ b[1] = "int" /\ op = "*" THEN <<"str", Repeat(a[2], b[2])>>
    ELSE IF a[1] = "int" /\ b[1] = "str" /\ op = "*" THEN <<"str", Repeat(b[2], a[2])>>
    ELSE Raised

\* -a and +a
UnaryOp(op, a) ==
    IF IsNumber(a) THEN (IF op = "-" THEN <<a[1], -a[2], a[3]>> ELSE a)
    ELSE Raised

\* a decimal literal that starts at p: digits, optional fraction; a letter
\* or an underscore right after it is a syntax error, and so is a nonzero
\* integer written with a leading zero
NumberAt(s, p) ==
    LET j == DigitsEnd(s, p)
        dot == j <= Len(s) /\ s[j] = "."
        k == IF dot THEN DigitsEnd(s, j + 1) ELSE j
        ndigits == (j - p) + (IF dot THEN k - j - 1 ELSE 0)
        whole == DecimalValue(s, p, j)
    IN  IF ndigits = 0 THEN SyntaxError
        ELSE IF k <= Len(s) /\ (s[k] \in Letters \/ s[k] = "_") THEN SyntaxError
        ELSE IF dot
        THEN ParseOk(k, Number("float",
                               whole * Power10(k - j - 1) + DecimalValue(s, j + 1, k),
                               Power10(k - j - 1)))
        ELSE IF j - p > 1 /\ s[p] = "0" /\ whole # 0 THEN SyntaxError
        ELSE ParseOk(k, <<"int", whole, 1>>)

\* the index of the first q from i on, 0 if there is none
RECURSIVE QuoteEnd(_, _, _)
QuoteEnd(s, i, q) ==
    IF i > Len(s) THEN 0
    ELSE IF s[i] = q THEN i
    ELSE QuoteEnd(s, i + 1, q)

\* a quoted string that starts at p
StringAt(s, p) ==
    LET e == QuoteEnd(s, p + 1, s[p])
    IN  IF e = 0 THEN SyntaxError
        ELSE ParseOk(e + 1, <<"str", SubSeq(s, p + 1, e - 1)>>)

RECURSIVE ParseLevel(_, _, _)
RECURSIVE OperatorsFrom(_, _, _, _)
RECURSIVE ParseUnary(_, _)

\* the binary operators of a level: 1 the sums, 2 the products
LevelOperators(level) == IF level = 1 THEN {"+", "-"} ELSE {"*", "/"}

\* the operand e has been read on a level: go on with the operators
AfterOperand(s, level, e) ==
    IF e.ok THEN OperatorsFrom(s, SkipSpaces(s, e.pos), level, e.v)
    ELSE SyntaxError

\* the right operand r of `acc op r` has been read
AfterRightOperand(s, level, op, acc, r) ==
    IF r.ok THEN OperatorsFrom(s, SkipSpaces(s, r.pos), level, BinaryOp(op, acc, r.v))
    ELSE SyntaxError

\* acc is the value read so far on the level, p is the next index that
\* holds no blank
OperatorsFrom(s, p, level, acc) ==
    IF p <= Len(s) /\ s[p] \in LevelOperators(level)
    THEN AfterRightOperand(s, level, s[p], acc, ParseLevel(s, p + 1, level + 1))
    ELSE ParseOk(p, acc)

\* the expression in parentheses has been read: the closing one is due
Closed(s, e) ==
    IF e.ok /\ SkipSpaces(s, e.pos) <= Len(s) /\ s[SkipSpaces(s, e.pos)] = ")"
    THEN ParseOk(SkipSpaces(s, e.pos) + 1, e.v)
    ELSE SyntaxError

\* a literal, a name or an expression in parentheses at p, which holds no
\* blank
ParseAtom(s, p) ==
    IF p > Len(s) THEN SyntaxError
    ELSE IF IsDigit(s[p]) \/ s[p] = "." THEN NumberAt(s, p)
    ELSE IF s[p] \in {"'", "\""} THEN StringAt(s, p)
    ELSE IF s[p] = "(" THEN Closed(s, ParseLevel(s, p + 1, 1))
    ELSE IF s[p] \in Letters \/ s[p] = "_" THEN ParseOk(WordEnd(s, p), Raised)
    ELSE SyntaxError

\* the operand u of a sign has been read
Signed(op, u) == IF u.ok THEN ParseOk(u.pos, UnaryOp(op, u.v)) ELSE SyntaxError

UnaryAt(s, p) ==
    IF p <= Len(s) /\ s[p] \in {"-", "+"} THEN Signed(s[p], ParseUnary(s, p + 1))
    ELSE ParseAtom(s, p)

ParseUnary(s, i) == UnaryAt(s, SkipSpaces(s, i))

\* level 1: a sum of products; level 2: a product of signed atoms; level 3:
\* a signed atom
ParseLevel(s, i, level) ==
    IF level = 3 THEN ParseUnary(s, i)
    ELSE AfterOperand(s, level, ParseLevel(s, i, level + 1))

\* the whole text has to be one expression
Completed(text, e) == IF e.ok /\ e.pos > Len(text) THEN e.v ELSE Raised

\* eval(text, {"__builtins__": {}}, {}): the value, Raised for any exception
Eval(text) == Completed(text, ParseLevel(text, 1, 1))

(***************************************************************************)
(* _evaluate_formula.                                                      *)
(***************************************************************************)
cQuantity == <<"q", "u", "a", "n", "t", "i", "t", "y">>
cPrice == <<"p", "r", "i", "c", "e">>
cPriceTotal == <<"p", "r", "i", "c", "e", "_", "t", "o", "t", "a", "l">>
cTotalFee == <<"t", "o", "t", "a", "l", "_", "f", "e", "e">>
cFeeLower == <<"f", "e", "e">>
kExpression == <<"e", "x", "p", "r", "e", "s", "s", "i", "o", "n">>

\* the columns of the input tables, in the order of the header
ColumnOrder ==
    <<cDate, cType, cFee, cQuantity, cPrice, cPriceTotal, cTotalFee, cFeeLower>>

\* the keys of row.items(), in the order of the header
Columns(row) == SelectSeq(ColumnOrder, LAMBDA c : c \in DOMAIN row)

\* str(num_value) for a text float() accepted, "0" after ValueError
FloatText(f) == IF f.ok THEN StrFloat(f) ELSE <<"0">>

\* the text a value is replaced by: str(float(value)), "0" for a falsy
\* value and for one that is no number
NumberText(value) ==
    IF Falsy(value) THEN <<"0">> ELSE FloatText(ParseFloat(value))

\* one pass of the loop over row.items()
SubstituteField(result, field, value) ==
    IF ~IsSubstring(field, result) THEN result
    ELSE Replace(result, field, NumberText(value))

\* the loop over row.items() from the i-th column on
RECURSIVE Substitute(_, _, _, _)
Substitute(columns, i, row, result) ==
    IF i > Len(columns) THEN result
    ELSE Substitute(columns, i + 1, row,
                    SubstituteField(result, columns[i], row[columns[i]]))

\* the value eval returned, as the transformer hands it on
PythonValue(v) ==
    CASE v = Raised -> None
      [] v[1] = "str" -> v[2]
      [] OTHER -> v

\* _evaluate_formula(row, expression): a number, a text, or None
evaluate_formula(row, expression) ==
    PythonValue(Eval(Substitute(Columns(row), 1, row, expression)))

(***************************************************************************)
(* _evaluate_condition: re.match(r"(\w+)\s*(==|!=|in)\s*(.+)") on the      *)
(* stripped condition, then the comparison with str(row.get(field)).       *)
(***************************************************************************)
kCondition == <<"c", "o", "n", "d", "i", "t", "i", "o", "n">>

\* the operator (==|!=|in) that starts at p, "" if none does
OperatorAt(s, p) ==
    IF p + 1 > Len(s) THEN ""
    ELSE IF s[p] = "=" /\ s[p + 1] = "=" THEN "=="
    ELSE IF s[p] = "!" /\ s[p + 1] = "=" THEN "!="
    ELSE IF s[p] = "i" /\ s[p + 1] = "n" THEN "in"
    ELSE ""

\* with s[1..k] for (\w+) the rest of the pattern matches: blanks, an
\* operator, blanks and at least one more character
FieldFits(s, k) ==
    /\ OperatorAt(s, SkipSpaces(s, k + 1)) # ""
    /\ SkipSpaces(s, SkipSpaces(s, k + 1) + 2) <= Len(s)

\* the longest (\w+) of at most k characters with which the pattern
\* matches, 0 if there is none: the greedy group gives characters back
RECURSIVE FieldEnd(_, _)
FieldEnd(s, k) ==
    IF k = 0 THEN 0
    ELSE IF FieldFits(s, k) THEN k
    ELSE FieldEnd(s, k - 1)

NoConditionMatch == [ok |-> FALSE, field |-> <<>>, operator |-> "", value_str |-> <<>>]

\* match.groups() when (\w+) is s[1..k]
ConditionGroups(s, k) ==
    IF k = 0 THEN NoConditionMatch
    ELSE [ok |-> TRUE,
          field |-> SubSeq(s, 1, k),
          operator |-> OperatorAt(s, SkipSpaces(s, k + 1)),
          value_str |-> SubSeq(s, SkipSpaces(s, SkipSpaces(s, k + 1) + 2), Len(s))]

\* re.match(pattern, s)
ConditionMatch(s) == ConditionGroups(s, FieldEnd(s, WordEnd(s, 1) - 1))

IsQuote(c) == c \in {"'", "\""}

\* v.strip("'\"")
RECURSIVE StripQuotes(_)
StripQuotes(v) ==
    IF v = <<>> THEN v
    ELSE IF IsQuote(Head(v)) THEN StripQuotes(Tail(v))
    ELSE IF IsQuote(v[Len(v)]) THEN StripQuotes(SubSeq(v, 1, Len(v) - 1))
    ELSE v

\* re.findall(r"'([^']*)'|\"([^\"]*)\"", v) from index i on, each match
\* taken as `v[0] or v[1]`
RECURSIVE QuotedValues(_, _)
QuotedValues(v, i) ==
    IF i > Len(v) THEN <<>>
    ELSE IF IsQuote(v[i]) /\ QuoteEnd(v, i + 1, v[i]) # 0
    THEN <<SubSeq(v, i + 1, QuoteEnd(v, i + 1, v[i]) - 1)>>
         \o QuotedValues(v, QuoteEnd(v, i + 1, v[i]) + 1)
    ELSE QuotedValues(v, i + 1)

\* x in a list
InList(x, list) == \E i \in 1..Len(list) : list[i] = x

\* the comparison, once the pattern has matched or not
ConditionResult(row, m) ==
    IF ~m.ok THEN FALSE
    ELSE CASE m.operator = "==" ->
                 Str(Get(row, m.field, None)) = StripQuotes(m.value_str)
           [] m.operator = "!=" ->
                 Str(Get(row, m.field, None)) # StripQuotes(m.value_str)
           [] m.operator = "in" ->
                 InList(Str(Get(row, m.field, None)), QuotedValues(m.value_str, 1))

\* _evaluate_condition(row, condition)
evaluate_condition(row, condition) ==
    ConditionResult(row, ConditionMatch(Strip(condition)))

(***************************************************************************)
(* Field Transformer.                                                      *)
(***************************************************************************)
RowError(line_number, field, error_message, source_value, row_data) ==
    [line_number |-> line_number, field |-> field,
     error_message |-> error_message, source_value |-> source_value,
     row_data |-> row_data]

\* variant: the catch-all hands the source value back
UnexpectedError_KeepsValue(row, dest_field, source_value, line_number) ==
    [value |-> source_value,
     error |-> <<RowError(line_number, dest_field, "Unexpected error",
                          source_value, row)>>]

\* the handler of `except Exception` in transform_value
UnexpectedError(row, dest_field, source_value, line_number) ==
    [value |-> None,
     error |-> <<RowError(line_number, dest_field, "Unexpected error",
                          source_value, row)>>]

\* the date_format branch, config being a dict and source_value truthy
DateFormat(row, dest_field, config, source_value, line_number) ==
    LET input_fmt == Get(config, kInputFormat, fmtDefaultIn)
        output_fmt == Get(config, kOutputFormat, fmtDefaultOut)
        stripped == IF HasChar(Str(source_value), "T") /\ HasChar(Str(source_value), "Z")
                    THEN RemoveChar(source_value, "Z")
                    ELSE source_value
        dt == strptime(SplitFirst(Str(stripped), "."), input_fmt)
    IN  IF dt.ok THEN [value |-> strftime(dt, output_fmt), error |-> <<>>]
        ELSE [value |-> stripped,
              error |-> <<RowError(line_number, dest_field, "Date format error",
                                   stripped, row)>>]

\* variant: every source value missing from the table is flagged, whatever
\* the default
Lookup_FlagsEveryUnmapped(row, dest_field, lookup_table, source_value, line_number) ==
    LET default == Get(lookup_table, kDefault, None)
        result == Get(lookup_table, source_value, default)
    IN  IF source_value # None /\ source_value \notin DOMAIN lookup_table
        THEN [value |-> result,
              error |-> <<RowError(line_number, dest_field,
                                   "Lookup value not found in mapping table",
                                   source_value, row)>>]
        ELSE [value |-> result, error |-> <<>>]

\* the lookup branch, config being a dict
Lookup(row, dest_field, lookup_table, source_value, line_number) ==
    LET default == Get(lookup_table, kDefault, None)
        result == Get(lookup_table, source_value, default)
    IN  IF result = None /\ source_value # None
           /\ source_value \notin DOMAIN lookup_table
        THEN [value |-> result,
              error |-> <<RowError(line_number, dest_field,
                                   "Lookup value not found in mapping table",
                                   source_value, row)>>]
        ELSE [value |-> result, error |-> <<>>]

\* a number: <<kind, numerator, denominator>>
IsNumberValue(v) == Len(v) = 3 /\ IsNumber(v)

\* the config's condition is a number other than zero: it is truthy, and
\* condition.strip() raises
NumberCondition(config) ==
    /\ IsNumberValue(Get(config, kCondition, None))
    /\ Get(config, kCondition, None)[2] # 0

\* variant: the text is appended whatever the condition says
Suffix_IgnoresCondition(row, config, source_value) ==
    [value |-> source_value \o Str(Get(config, kValue, <<>>)), error |-> <<>>]

\* the suffix branch, config being a dict and source_value truthy
Suffix(row, config, source_value) ==
    IF /\ ~Falsy(Get(config, kCondition, None))
       /\ ~evaluate_condition(row, Get(config, kCondition, None))
    THEN [value |-> source_value, error |-> <<>>]
    ELSE [value |-> source_value \o Str(Get(config, kValue, <<>>)), error |-> <<>>]

\* the prefix branch, config being a dict and source_value truthy
Prefix(row, config, source_value) ==
    IF /\ ~Falsy(Get(config, kCondition, None))
       /\ ~evaluate_condition(row, Get(config, kCondition, None))
    THEN [value |-> source_value, error |-> <<>>]
    ELSE [value |-> Str(Get(config, kValue, <<>>)) \o source_value, error |-> <<>>]

\* the formula branch once _evaluate_formula has returned
FormulaResult(result, row, dest_field, source_value, line_number) ==
    IF result = None
    THEN [value |-> result,
          error |-> <<RowError(line_number, dest_field,
                               "Formula evaluation failed", source_value, row)>>]
    ELSE [value |-> result, error |-> <<>>]

\* the formula branch, config being a dict
Formula(row, dest_field, config, source_value, line_number) ==
    FormulaResult(evaluate_formula(row, Get(config, kExpression, <<>>)),
                  row, dest_field, source_value, line_number)

kConditions == <<"c", "o", "n", "d", "i", "t", "i", "o", "n", "s">>
kIf == <<"i", "f">>
kThen == <<"t", "h", "e", "n">>
kElse == <<"e", "l", "s", "e">>

\* the value of the first entry that has the key "else" and not the key "if"
RECURSIVE FirstElse(_, _)
FirstElse(conditions, i) ==
    IF i > Len(conditions) THEN None
    ELSE IF kIf \notin DOMAIN conditions[i] /\ kElse \in DOMAIN conditions[i]
    THEN conditions[i][kElse]
    ELSE FirstElse(conditions, i + 1)

\* variant: an else entry does not end the scan, its value is kept for the
\* case that no condition of the list holds
RECURSIVE Conditional_ElseAfterAllIfs(_, _, _, _)
Conditional_ElseAfterAllIfs(row, conditions, i, raised) ==
    IF i > Len(conditions)
    THEN [value |-> FirstElse(conditions, 1), error |-> <<>>]
    ELSE IF kIf \in DOMAIN conditions[i]
    THEN IF conditions[i][kIf] = None \/ IsNumberValue(conditions[i][kIf]) THEN raised
         ELSE IF evaluate_condition(row, conditions[i][kIf])
         THEN [value |-> Get(conditions[i], kThen, None), error |-> <<>>]
         ELSE Conditional_ElseAfterAllIfs(row, conditions, i + 1, raised)
    ELSE Conditional_ElseAfterAllIfs(row, conditions, i + 1, raised)

\* the loop of the conditional branch from entry i on, conditions being a
\* list of dicts; a condition that is null or a number makes
\* condition.strip() raise
RECURSIVE Conditional(_, _, _, _)
Conditional(row, conditions, i, raised) ==
    IF i > Len(conditions) THEN [value |-> None, error |-> <<>>]
    ELSE IF kIf \in DOMAIN conditions[i]
    THEN IF conditions[i][kIf] = None \/ IsNumberValue(conditions[i][kIf]) THEN raised
         ELSE IF evaluate_condition(row, conditions[i][kIf])
         THEN [value |-> Get(conditions[i], kThen, None), error |-> <<>>]
         ELSE Conditional(row, conditions, i + 1, raised)
    ELSE IF kElse \in DOMAIN conditions[i]
    THEN [value |-> conditions[i][kElse], error |-> <<>>]
    ELSE Conditional(row, conditions, i + 1, raised)

\* transform_value: [value, error], error a sequence of zero or one RowError
transform_value(row, field_mapping, line_number) ==
    LET transform_type == field_mapping.transform_type
        source_field == field_mapping.source_field
        dest_field == field_mapping.destination_field
        config == field_mapping.transform_config
        source_value == IF ~Falsy(source_field) THEN Get(row, source_field, None)
                        ELSE None
        raised == UnexpectedError(row, dest_field, source_value, line_number)
    IN  CASE transform_type = "direct" -> [value |-> source_value, error |-> <<>>]
          [] transform_type = "constant" ->
                IF config.tag # "dict" THEN raised
                ELSE [value |-> Get(config.d, kValue, None), error |-> <<>>]
          [] transform_type = "date_format" ->
                IF Falsy(source_value) THEN [value |-> None, error |-> <<>>]
                ELSE IF config.tag # "dict" THEN raised
                ELSE DateFormat(row, dest_field, config.d, source_value, line_number)
          [] transform_type = "lookup" ->
                IF config.tag # "dict" THEN raised
                ELSE Lookup(row, dest_field, config.d, source_value, line_number)
          [] transform_type = "formula" ->
                IF config.tag # "dict" THEN raised
                ELSE IF Get(config.d, kExpression, <<>>) = None /\ DOMAIN row # {}
                THEN raised
                ELSE Formula(row, dest_field, config.d, source_value, line_number)
          [] transform_type = "suffix" ->
                IF Falsy(source_value) THEN [value |-> None, error |-> <<>>]
                ELSE IF config.tag # "dict" THEN raised
                ELSE IF NumberCondition(config.d) THEN raised
                ELSE Suffix(row, config.d, source_value)
          [] transform_type = "prefix" ->
                IF Falsy(source_value) THEN [value |-> None, error |-> <<>>]
                ELSE IF config.tag # "dict" THEN raised
                ELSE IF NumberCondition(config.d) THEN raised
                ELSE Prefix(row, config.d, source_value)
          [] transform_type = "conditional" ->
                IF config.tag # "dict" THEN raised
                ELSE IF Get(config.d, kConditions, List(<<>>)).tag = "null" THEN raised
                ELSE Conditional(row, Get(config.d, kConditions, List(<<>>)).items,
                                 1, raised)
          [] OTHER -> [value |-> source_value, error |-> <<>>]

(***************************************************************************)
(* Row Processor.  An output row is a Python dict: keys in insertion order  *)
(* and the value of each key.                                              *)
(***************************************************************************)
EmptyDict == [keys |-> <<>>, vals |-> <<>>]

\* variant: an overwritten key moves to the end of the dict
SetItem_MovesKey(result, k, v) ==
    [keys |-> Append(SelectSeq(result.keys, LAMBDA x : x # k), k),
     vals |-> (k :> v) @@ result.vals]

\* variant: a key that is already set keeps its first value
SetItem_KeepsFirst(result, k, v) ==
    IF \E i \in 1..Len(result.keys) : result.keys[i] = k THEN result
    ELSE [keys |-> Append(result.keys, k), vals |-> (k :> v) @@ result.vals]

\* result[k] = v
SetItem(result, k, v) ==
    [keys |-> IF \E i \in 1..Len(result.keys) : result.keys[i] = k
              THEN result.keys ELSE Append(result.keys, k),
     vals |-> (k :> v) @@ result.vals]

\* variant: the error of a later mapping is put in front of the earlier ones
RECURSIVE MapFields_NewestErrorFirst(_, _, _, _, _)
MapFields_NewestErrorFirst(field_mappings, i, row, line_number, acc) ==
    IF i > Len(field_mappings) THEN acc
    ELSE LET tv == transform_value(row, field_mappings[i], line_number)
         IN  MapFields_NewestErrorFirst(field_mappings, i + 1, row, line_number,
                       [result |-> SetItem(acc.result,
                                           field_mappings[i].destination_field,
                                           tv.value),
                        errors |-> tv.error \o acc.errors])

\* the loop of transform_row over field_mappings[i..]
RECURSIVE MapFields(_, _, _, _, _)
MapFields(field_mappings, i, row, line_number, acc) ==
    IF i > Len(field_mappings) THEN acc
    ELSE LET tv == transform_value(row, field_mappings[i], line_number)
         IN  MapFields(field_mappings, i + 1, row, line_number,
                       [result |-> SetItem(acc.result,
                                           field_mappings[i].destination_field,
                                           tv.value),
                        errors |-> acc.errors \o tv.error])

\* transform_row: returned "none" is (None, []), "row" is (result, errors);
\* "raise" is an exception leaving transform_row
transform_row(config, row, line_number) ==
    LET skip == should_skip(config.filter_rules, row)
    IN  IF skip = "raise" THEN [returned |-> "raise", result |-> EmptyDict, errors |-> <<>>]
        ELSE IF skip = "skip" THEN [returned |-> "none", result |-> EmptyDict, errors |-> <<>>]
        ELSE LET r == MapFields(config.field_mappings, 1, row, line_number,
                                [result |-> EmptyDict, errors |-> <<>>])
             IN  [returned |-> "row", result |-> r.result, errors |-> r.errors]

\* bool(transformed): None and the empty dict are false
Truthy(tr) == tr.returned = "row" /\ tr.result.keys # <<>>

(***************************************************************************)
(* Mapping configurations (ETLMapping.to_dict()) and input rows.           *)
(***************************************************************************)
FieldMapping(dest, source, type, config) ==
    [destination_field |-> dest, source_field |-> source,
     transform_type |-> type, transform_config |-> config]

FilterRule(field, operator, values, value) ==
    [field |-> field, operator |-> operator, values |-> values, value |-> value]

fmDate ==
    FieldMapping("date", cDate, "date_format",
                 Dict((kInputFormat :> fmtYearMonth) @@ (kOutputFormat :> fmtMonthYear)))

fmType ==
    FieldMapping("type", cType, "lookup", Dict((sBUY :> sBUY) @@ (kDefault :> None)))

\* date_format and lookup behind an `in` filter: the shape of the default
\* mappings
mapStandard ==
    [name |-> "standard",
     field_mappings |-> <<fmDate, fmType>>,
     filter_rules |-> <<FilterRule(cType, "in", List(<<sDEPOSIT>>), None)>>]

\* a filter rule whose `values` is null
mapNullValues ==
    [name |-> "null_values",
     field_mappings |-> <<fmDate>>,
     filter_rules |-> <<FilterRule(cType, "equals", List(<<sDEPOSIT>>), sDEPOSIT),
                        FilterRule(cType, "not_in", NullList, None)>>]

\* no field mappings at all
mapEmpty == [name |-> "empty", field_mappings |-> <<>>, filter_rules |-> <<>>]

\* two field mappings with the same destination_field
mapDuplicate ==
    [name |-> "duplicate",
     field_mappings |-> <<FieldMapping("date", cDate, "direct", Dict(<<>>)),
                          FieldMapping("type", cType, "direct", Dict(<<>>)),
                          FieldMapping("date", cType, "lookup",
                                       Dict((sBUY :> sBUY) @@ (sDEPOSIT :> sDEPOSIT)))>>,
     filter_rules |-> <<FilterRule(cDate, "is_empty", List(<<>>), None)>>]

\* a transform_config that is null
mapNullConfig ==
    [name |-> "null_config",
     field_mappings |-> <<FieldMapping("type", cType, "direct", Dict(<<>>)),
                          FieldMapping("account", None, "constant", NullDict)>>,
     filter_rules |-> <<FilterRule(cType, "contains", List(<<>>), <<"E", "P">>),
                        FilterRule(cFee, "is_not_empty", List(<<>>), None)>>]

\* direct and constant only
mapDirect ==
    [name |-> "direct",
     field_mappings |-> <<FieldMapping("type", cType, "direct", Dict(<<>>)),
                          FieldMapping("account", None, "constant",
                                       Dict(kValue :> <<"R">>))>>,
     filter_rules |-> <<FilterRule(cType, "not_equals", List(<<>>), sBUY)>>]

Mappings ==
    {mapStandard, mapNullValues, mapEmpty, mapDuplicate, mapNullConfig, mapDirect}

\* the header of the input table
fieldnames == <<cDate, cType>>

Row(date, type) == (cDate :> date) @@ (cType :> type)

\* a clean row, a malformed date, a filtered type, a malformed date with an
\* unknown type, and a short row (empty date, missing type cell)
RowDomain ==
    {Row(sGoodDate, sBUY), Row(sBadDate, sBUY), Row(sGoodDate, sDEPOSIT),
     Row(sBadDate, sSELL), Row(<<>>, None)}

(***************************************************************************)
(* File Processor: one call of validate_file or transform_file on a        *)
(* DynamicTransformer.                                                     *)
(***************************************************************************)
VARIABLES
    mapping,        \* self.mapping: the configuration given to __init__
    pc,             \* where the call stands
    dry_run,        \* parameter of _process_file
    fail_on_error,  \* parameter of _process_file
    rows,           \* the data rows the reader has delivered so far
    success_count,  \* result.success_count
    skipped_count,  \* result.skipped_count
    error_count,    \* result.error_count
    errors,         \* result.errors
    log_messages,   \* result.log_messages
    results,        \* the buffer of output rows
    output,         \* the file at output_path
    output_before,  \* the file at output_path when the call started
    lines_read,     \* physical lines of the input the reader has consumed
    row_line,       \* for each delivered row, the physical line it stands on
    stage,          \* a single method called on its own: where the call stands
    arg_row,        \* its `row` argument
    arg_cfg,        \* the configuration it works from
    ret,            \* what it returned
    input_path,     \* parameter of _process_file: the file the call reads
    disk,           \* the input files: what a reader gets from each path
    returned,       \* what the calls made so far have returned, oldest first
    parked          \* the locals of the calls that are not running just now

\* the reader's position in the input file
lineVars == <<lines_read, row_line>>

\* a method of the transformer called on its own
callVars == <<stage, arg_row, arg_cfg, ret>>

\* several calls on one transformer
sessionVars == <<disk, returned, parked>>

vars ==
    <<mapping, pc, dry_run, fail_on_error, rows, success_count, skipped_count,
      error_count, errors, log_messages, results, output, output_before,
      lines_read, row_line, stage, arg_row, arg_cfg, ret, input_path, disk,
      returned, parked>>

\* no method is being called on its own
NoCall ==
    /\ stage = "none"
    /\ arg_row = <<>>
    /\ arg_cfg = <<>>
    /\ ret = <<>>

\* one call only, on a file the reader is free to find anything in
NoSession ==
    /\ disk = <<>>
    /\ returned = <<>>
    /\ parked = <<>>

NoFile == [exists |-> FALSE, header |-> <<>>, rows |-> <<>>]

OldFile == [exists |-> TRUE, header |-> <<"previous">>, rows |-> <<>>]

\* DynamicTransformer(mapping_config), no call made yet
Init ==
    /\ mapping \in Mappings
    /\ pc = "idle"
    /\ dry_run = TRUE
    /\ fail_on_error = TRUE
    /\ rows = <<>>
    /\ success_count = 0
    /\ skipped_count = 0
    /\ error_count = 0
    /\ errors = <<>>
    /\ log_messages = <<>>
    /\ results = <<>>
    /\ output \in {NoFile, OldFile}
    /\ output_before = output
    /\ lines_read = 0
    /\ row_line = <<>>
    /\ NoCall
    /\ input_path = "input.csv"
    /\ NoSession

\* variant: the result object of the previous call is used again, counts
\* and lists are not emptied
StartPassOn_ReusesResult(path, dry, foe) ==
    /\ pc = "idle"
    /\ input_path' = path
    /\ pc' = "opening"
    /\ dry_run' = dry
    /\ fail_on_error' = foe
    /\ rows' = <<>>
    /\ results' = <<>>
    /\ log_messages' =
          log_messages \o
          << <<"mode", IF dry THEN "Validating" ELSE "Transforming", path>>,
             <<"mapping", mapping.name>>,
             <<"counts", Len(mapping.field_mappings), Len(mapping.filter_rules)>> >>
    /\ lines_read' = 0
    /\ row_line' = <<>>
    /\ UNCHANGED <<success_count, skipped_count, error_count, errors>>
    /\ UNCHANGED <<mapping, output, output_before>>
    /\ UNCHANGED callVars
    /\ UNCHANGED sessionVars

\* result = TransformResult(); results = []; the three opening log lines
StartPassOn(path, dry, foe) ==
    /\ pc = "idle"
    /\ input_path' = path
    /\ pc' = "opening"
    /\ dry_run' = dry
    /\ fail_on_error' = foe
    /\ rows' = <<>>
    /\ success_count' = 0
    /\ skipped_count' = 0
    /\ error_count' = 0
    /\ errors' = <<>>
    /\ results' = <<>>
    /\ log_messages' =
          << <<"mode", IF dry THEN "Validating" ELSE "Transforming", path>>,
             <<"mapping", mapping.name>>,
             <<"counts", Len(mapping.field_mappings), Len(mapping.filter_rules)>> >>
    /\ lines_read' = 0
    /\ row_line' = <<>>
    /\ UNCHANGED <<mapping, output, output_before>>
    /\ UNCHANGED callVars
    /\ UNCHANGED sessionVars

\* a call on the file the transformer was set up with
StartPass(dry, foe) == StartPassOn(input_path, dry, foe)

validate_file == StartPass(TRUE, TRUE)

transform_file == \E foe \in BOOLEAN : StartPass(FALSE, foe)

\* input_path.open() and reader.fieldnames succeed
OpenInput ==
    /\ pc = "opening"
    /\ pc' = "reading"
    /\ log_messages' = Append(log_messages, <<"columns", fieldnames>>)
    /\ lines_read' = 1
    /\ UNCHANGED row_line
    /\ UNCHANGED callVars
    /\ UNCHANGED <<input_path, disk, returned, parked>>
    /\ UNCHANGED <<mapping, dry_run, fail_on_error, rows, success_count,
                   skipped_count, error_count, errors, results, output,
                   output_before>>

\* variant: the handler does not return, the summary line follows
ReadFailed_FallsThrough ==
    /\ pc' = "read_failed"
    /\ log_messages' =
          log_messages \o << <<"read_error">>,
                             <<"summary", IF dry_run THEN "Validation" ELSE "Transformation",
                               success_count, skipped_count, error_count>> >>
    /\ UNCHANGED lineVars
    /\ UNCHANGED callVars
    /\ UNCHANGED <<input_path, disk, returned, parked>>
    /\ UNCHANGED <<mapping, dry_run, fail_on_error, rows, success_count,
                   skipped_count, error_count, errors, results, output,
                   output_before>>

\* the `except Exception` around the read: log the failure and return result
ReadFailed ==
    /\ pc' = "read_failed"
    /\ log_messages' = Append(log_messages, <<"read_error">>)
    /\ UNCHANGED lineVars
    /\ UNCHANGED callVars
    /\ UNCHANGED <<input_path, disk, returned, parked>>
    /\ UNCHANGED <<mapping, dry_run, fail_on_error, rows, success_count,
                   skipped_count, error_count, errors, results, output,
                   output_before>>

\* input_path.open() or the read of the header raises
OpenFails == pc = "opening" /\ ReadFailed

\* the reader raises (decoding, csv.Error) on the way to the next row
ReadFails == pc = "reading" /\ ReadFailed

\* variant: a row with field errors is kept out of the buffer
Buffered_DropsErrorRows(tr) == Truthy(tr) /\ tr.errors = <<>>

\* `if transformed:` the row goes to the output buffer
Buffered(tr) == Truthy(tr)

\* variant: every buffered row counts as a success
IsSuccess_IgnoresErrors(tr) == Truthy(tr)

\* `if not row_errors:` under `if transformed:` the row counts as a success
IsSuccess(tr) == Truthy(tr) /\ tr.errors = <<>>

\* variant: the handler sits outside the loop, the first failing row ends
\* the pass
RowFailed_EndsPass(line_number, row) ==
    /\ errors' = Append(errors,
                        RowError(line_number, "*", "Row processing failed", None, row))
    /\ error_count' = error_count + 1
    /\ pc' = "read_failed"
    /\ UNCHANGED <<success_count, skipped_count, results, log_messages>>

\* the `except Exception` inside the loop: one whole-row RowError, and the
\* loop goes on
RowFailed(line_number, row) ==
    /\ errors' = Append(errors,
                        RowError(line_number, "*", "Row processing failed", None, row))
    /\ error_count' = error_count + 1
    /\ pc' = pc
    /\ UNCHANGED <<success_count, skipped_count, results, log_messages>>

LineLog(line_number, tr) ==
    IF Truthy(tr) THEN
        IF tr.errors = <<>>
        THEN <<"line", line_number,
               IF dry_run THEN "Valid" ELSE "Transformed successfully", 0>>
        ELSE <<"line", line_number, "Has errors", Len(tr.errors)>>
    ELSE <<"line", line_number, "Skipped (filtered out)", 0>>

\* the body of the loop over the reader, for the next row
ProcessRowOf(row) ==
    /\ pc = "reading"
    /\   LET line_number == Len(rows) + 2
             tr == transform_row(mapping, row, line_number)
         IN  /\ rows' = Append(rows, row)
             /\ lines_read' = lines_read + 1
             /\ row_line' = Append(row_line, lines_read + 1)
             /\ IF tr.returned = "raise" THEN RowFailed(line_number, row)
                ELSE
                    /\ pc' = pc
                    /\ errors' = errors \o tr.errors
                    /\ error_count' = error_count + Len(tr.errors)
                    /\ results' = IF Buffered(tr) THEN Append(results, tr.result)
                                  ELSE results
                    /\ success_count' = IF IsSuccess(tr) THEN success_count + 1
                                        ELSE success_count
                    /\ skipped_count' = IF Truthy(tr) THEN skipped_count
                                        ELSE skipped_count + 1
                    /\ log_messages' = Append(log_messages, LineLog(line_number, tr))
    /\ UNCHANGED <<mapping, dry_run, fail_on_error, output, output_before>>
    /\ UNCHANGED callVars
    /\ UNCHANGED <<input_path, disk, returned, parked>>

\* the reader delivers some row
ProcessRow ==
    /\ Len(rows) < MaxRows
    /\ \E row \in RowDomain : ProcessRowOf(row)

\* the condition of the outer `if` after the read
WriteConsidered == ~dry_run /\ results # <<>>

\* variant: the flag is read the wrong way round
WriteWithheld_FlagInverted == error_count > 0 /\ ~fail_on_error

\* the condition under which the write is withheld
WriteWithheld == error_count > 0 /\ fail_on_error

\* a cell as csv.DictWriter writes it: None becomes the empty string
CsvCell(v) == IF v = None THEN <<>> ELSE v

\* the table DictWriter(f, fieldnames=results[0].keys()) writes for the
\* first n rows of the buffer
WrittenTable(n) ==
    LET header == results[1].keys
    IN  [exists |-> TRUE,
         header |-> header,
         rows |-> [i \in 1..n |->
                     [j \in 1..Len(header) |-> CsvCell(results[i].vals[header[j]])]]]

SummaryLog ==
    <<"summary", IF dry_run THEN "Validation" ELSE "Transformation",
      success_count, skipped_count, error_count>>

\* variant: the output file is opened for writing before the buffer is
\* looked at, so that an empty buffer leaves an empty file behind
FinishWithoutOutput_OpensOutput ==
    /\ pc = "reading"
    /\ ~WriteConsidered
    /\ pc' = "done"
    /\ output' = IF dry_run THEN output
                 ELSE [exists |-> TRUE, header |-> <<>>, rows |-> <<>>]
    /\ log_messages' = Append(log_messages, SummaryLog)
    /\ UNCHANGED lineVars
    /\ UNCHANGED callVars
    /\ UNCHANGED <<input_path, disk, returned, parked>>
    /\ UNCHANGED <<mapping, dry_run, fail_on_error, rows, success_count,
                   skipped_count, error_count, errors, results, output_before>>

\* the reader is exhausted and no output is to be written: dry run or empty
\* buffer
FinishWithoutOutput ==
    /\ pc = "reading"
    /\ ~WriteConsidered
    /\ pc' = "done"
    /\ log_messages' = Append(log_messages, SummaryLog)
    /\ UNCHANGED lineVars
    /\ UNCHANGED callVars
    /\ UNCHANGED <<input_path, disk, returned, parked>>
    /\ UNCHANGED <<mapping, dry_run, fail_on_error, rows, success_count,
                   skipped_count, error_count, errors, results, output,
                   output_before>>

\* the reader is exhausted and the write is withheld because of the errors
FinishOutputSkipped ==
    /\ pc = "reading"
    /\ WriteConsidered /\ WriteWithheld
    /\ pc' = "done"
    /\ log_messages' = log_messages \o << <<"output_skipped", error_count>>, SummaryLog >>
    /\ UNCHANGED lineVars
    /\ UNCHANGED callVars
    /\ UNCHANGED <<input_path, disk, returned, parked>>
    /\ UNCHANGED <<mapping, dry_run, fail_on_error, rows, success_count,
                   skipped_count, error_count, errors, results, output,
                   output_before>>

\* the reader is exhausted and the output table is written
FinishOutputWritten ==
    /\ pc = "reading"
    /\ WriteConsidered /\ ~WriteWithheld
    /\ pc' = "done"
    /\ output' = WrittenTable(Len(results))
    /\ log_messages' = log_messages \o << <<"output_written">>, SummaryLog >>
    /\ UNCHANGED lineVars
    /\ UNCHANGED callVars
    /\ UNCHANGED <<input_path, disk, returned, parked>>
    /\ UNCHANGED <<mapping, dry_run, fail_on_error, rows, success_count,
                   skipped_count, error_count, errors, results, output_before>>

\* the reader is exhausted and mkdir, open or the write raises (permissions,
\* a full disk): the exception leaves _process_file; the file is untouched
\* or holds what was written before the failure
FinishOutputRaises ==
    /\ pc = "reading"
    /\ WriteConsidered /\ ~WriteWithheld
    /\ pc' = "raised"
    /\ \/ output' = output
       \/ \E n \in 0..(Len(results) - 1) : output' = WrittenTable(n)
    /\ UNCHANGED lineVars
    /\ UNCHANGED callVars
    /\ UNCHANGED <<input_path, disk, returned, parked>>
    /\ UNCHANGED <<mapping, dry_run, fail_on_error, rows, success_count,
                   skipped_count, error_count, errors, log_messages, results,
                   output_before>>

Next ==
    \/ validate_file
    \/ transform_file
    \/ OpenInput
    \/ OpenFails
    \/ ProcessRow
    \/ ReadFails
    \/ FinishWithoutOutput
    \/ FinishOutputSkipped
    \/ FinishOutputWritten
    \/ FinishOutputRaises

Spec == Init /\ [][Next]_vars

(***************************************************************************)
(* Vocabulary of the properties.                                           *)
(***************************************************************************)
\* the pass has started
InPass == pc # "idle"

\* what the Row Processor returns for the i-th data row, read on line i + 1
RowResult(i) == transform_row(mapping, rows[i], i + 1)

\* the line numbers that carry at least one RowError
ErrorLines == {errors[k].line_number : k \in 1..Len(errors)}

\* the RowErrors recorded for one line
ErrorsOfLine(n) == {k \in 1..Len(errors) : errors[k].line_number = n}

\* the lines whose per-line log entry has one of the given statuses
LinesLogged(statuses) ==
    {log_messages[k][2] : k \in {j \in 1..Len(log_messages) :
                                    /\ log_messages[j][1] = "line"
                                    /\ log_messages[j][3] \in statuses}}

SuccessLines == LinesLogged({"Valid", "Transformed successfully"})

SkippedLines == LinesLogged({"Skipped (filtered out)"})

\* the number of RowErrors the rows 1..n are to produce: the field errors of
\* a returned row, one for a row on which transform_row raised
RECURSIVE ExpectedErrors(_)
ExpectedErrors(n) ==
    IF n = 0 THEN 0
    ELSE ExpectedErrors(n - 1)
         + (IF RowResult(n).returned = "raise" THEN 1 ELSE Len(RowResult(n).errors))

\* the rows among 1..n for which transform_row returned a non-empty row
BufferedRows(n) == {i \in 1..n : Truthy(RowResult(i))}

\* the input of the three-row example: a clean row, a row with a malformed
\* date, a filtered row
ExampleRows ==
    <<Row(sGoodDate, sBUY), Row(sBadDate, sBUY), Row(sGoodDate, sDEPOSIT)>>

(***************************************************************************)
(* Properties of the File Processor.                                       *)
(***************************************************************************)
\* C1: after every processed row and at the end of a pass, success_count +
\* skipped_count + (number of rows with at least one RowError) is the number
\* of data rows read, and the three groups of rows are pairwise disjoint.
C1_CountsPartitionRows ==
    InPass =>
        /\ success_count + skipped_count + Cardinality(ErrorLines) = Len(rows)
        /\ Cardinality(SuccessLines) = success_count
        /\ Cardinality(SkippedLines) = skipped_count
        /\ SuccessLines \cap SkippedLines = {}
        /\ SuccessLines \cap ErrorLines = {}
        /\ SkippedLines \cap ErrorLines = {}
        /\ SuccessLines \cup SkippedLines \cup ErrorLines = 2..(Len(rows) + 1)

\* a completed pass over three rows with a success, a skipped row and a row
\* with two field errors
C1_Witness ==
    /\ pc = "done"
    /\ Len(rows) >= 3
    /\ success_count >= 1
    /\ skipped_count >= 1
    /\ \E n \in ErrorLines : Cardinality(ErrorsOfLine(n)) = 2

\* C2: the output file changes only once the read pass has ended, only in a
\* transform_file call, and only if error_count = 0 or fail_on_error is
\* false.
C2_WriteGated ==
    output # output_before =>
        /\ pc \in {"done", "raised"}
        /\ ~dry_run
        /\ (error_count = 0 \/ ~fail_on_error)

\* an output written in spite of errors, fail_on_error being false
C2_Witness ==
    /\ pc = "done"
    /\ output # output_before
    /\ error_count > 0
    /\ ~fail_on_error

\* C3: error_count is the length of errors and the number of field errors
\* plus whole-row errors of the rows read; success_count is the number of
\* buffered rows without field error; a row with field errors stays in the
\* buffer; the three-row example ends with counts 1, 1, 1 and, under
\* fail_on_error, no output.
C3_ErrorAccounting ==
    InPass =>
        /\ error_count = Len(errors)
        /\ error_count = ExpectedErrors(Len(rows))
        /\ Len(results) = Cardinality(BufferedRows(Len(rows)))
        /\ success_count =
              Cardinality({i \in BufferedRows(Len(rows)) : ErrorsOfLine(i + 1) = {}})
        /\ \A i \in BufferedRows(Len(rows)) :
              Cardinality(ErrorsOfLine(i + 1)) = Len(RowResult(i).errors)
        /\ (pc = "done" /\ mapping = mapStandard /\ rows = ExampleRows) =>
              /\ success_count = 1
              /\ skipped_count = 1
              /\ error_count = 1
              /\ fail_on_error => output = output_before

\* the three-row example, transformed under fail_on_error
C3_Witness ==
    /\ pc = "done"
    /\ mapping = mapStandard
    /\ rows = ExampleRows
    /\ ~dry_run
    /\ fail_on_error
    /\ Len(results) = 2

\* C4: a row on which the Row Processor raises adds exactly one RowError with
\* field "*" and the row's line number, adds one to error_count, leaves
\* success_count, skipped_count and the buffer alone, and the pass goes on
\* reading.
C4_RowExceptionContained ==
    [][(/\ Len(rows') = Len(rows) + 1
        /\ transform_row(mapping, rows'[Len(rows')], Len(rows) + 2).returned = "raise") =>
          /\ pc' = "reading"
          /\ errors' = Append(errors, RowError(Len(rows) + 2, "*",
                                               "Row processing failed", None,
                                               rows'[Len(rows')]))
          /\ error_count' = error_count + 1
          /\ UNCHANGED <<success_count, skipped_count, results>>]_vars

\* a completed pass in which the first row raised and a later row was skipped
C4_Witness ==
    /\ pc = "done"
    /\ Len(rows) >= 3
    /\ RowResult(1).returned = "raise"
    /\ skipped_count >= 1
    /\ \E k \in 1..Len(errors) : errors[k].field = "*" /\ errors[k].line_number = 2

\* the rows the Filter Engine asked to skip
FilteredRows == {i \in 1..Len(rows) : should_skip(mapping.filter_rules, rows[i]) = "skip"}

\* C5: at the end of a pass skipped_count is the number of rows a filter rule
\* matched; such a row has no RowError and is not buffered; a row that no
\* rule matches is not counted as skipped.
C5_SkippedAreFiltered ==
    pc = "done" =>
        /\ skipped_count = Cardinality(FilteredRows)
        /\ SkippedLines = {i + 1 : i \in FilteredRows}
        /\ \A i \in FilteredRows : ErrorsOfLine(i + 1) = {} /\ i \notin BufferedRows(Len(rows))

\* the kinds of log line present
LogKinds == {log_messages[k][1] : k \in 1..Len(log_messages)}

\* the number of log lines of one kind
CountKind(kind) == Cardinality({k \in 1..Len(log_messages) : log_messages[k][1] = kind})

\* transform_file has written the whole table
OutputWritten == pc = "done" /\ output # output_before

\* the destination fields as declared
DeclaredFields ==
    [j \in 1..Len(mapping.field_mappings) |-> mapping.field_mappings[j].destination_field]

\* a sequence without the repetitions of its elements, first occurrences kept
RECURSIVE Distinct(_)
Distinct(seq) ==
    IF seq = <<>> THEN <<>>
    ELSE LET front == Distinct(SubSeq(seq, 1, Len(seq) - 1))
             last == seq[Len(seq)]
         IN  IF \E j \in 1..Len(front) : front[j] = last THEN front
             ELSE Append(front, last)

\* the rows among 1..n, in input order, that were neither skipped nor failed
\* as a whole
RECURSIVE KeptRows(_)
KeptRows(n) ==
    IF n = 0 THEN <<>>
    ELSE KeptRows(n - 1) \o (IF RowResult(n).returned = "row" THEN <<n>> ELSE <<>>)

\* the data rows of the table, as csv text, under a given header
ExpectedDataRows(header) ==
    LET kept == KeptRows(Len(rows))
    IN  [k \in 1..Len(kept) |->
            [j \in 1..Len(header) |-> CsvCell(RowResult(kept[k]).result.vals[header[j]])]]

\* C6 as stated: the header of a written table is the list of destination
\* fields in declaration order, the data rows are the transformed rows of
\* the rows neither skipped nor failed, in input order.
C6_HeaderIsDeclaredFields ==
    OutputWritten =>
        /\ output.header = DeclaredFields
        /\ output.rows = ExpectedDataRows(DeclaredFields)

\* C6, amended: the header is the list of the distinct destination fields, in
\* the order of their first declaration; the data rows are the transformed
\* rows (None written as an empty cell) of the rows neither skipped nor
\* failed, one each, in input order, rows with field errors included.
C6_OutputTable ==
    OutputWritten =>
        /\ output.exists
        /\ output.header = Distinct(DeclaredFields)
        /\ Len(output.rows) = Len(KeptRows(Len(rows)))
        /\ output.rows = ExpectedDataRows(Distinct(DeclaredFields))

\* a table written under a mapping with a repeated destination field, from an
\* input with a skipped row and a row with a field error
C6_Witness ==
    /\ OutputWritten
    /\ mapping = mapDuplicate
    /\ Len(output.rows) = 2
    /\ skipped_count = 1
    /\ error_count = 1

\* the input could not be opened: the pass failed before the columns line
OpenFailed == pc = "read_failed" /\ "columns" \notin LogKinds

\* C7: when the input cannot be opened the call ends at once: no row
\* processed, nothing written, all counts zero, no RowError, the failure
\* logged by one line, which is the last, and no summary line.
C7_OpenFailureTerminal ==
    OpenFailed =>
        /\ rows = <<>>
        /\ results = <<>>
        /\ success_count = 0 /\ skipped_count = 0 /\ error_count = 0
        /\ errors = <<>>
        /\ output = output_before
        /\ CountKind("read_error") = 1
        /\ log_messages[Len(log_messages)] = <<"read_error">>
        /\ "summary" \notin LogKinds
        /\ ~ENABLED Next

\* transform_file fails to open its input while an older output file exists
C7_Witness ==
    /\ OpenFailed
    /\ ~dry_run
    /\ output_before = OldFile

\* C8: a read failure after k >= 1 processed rows still returns an empty
\* result (zero counts, no RowError) with one explanatory log line, and
\* writes nothing.
C8_MidFileFailureEmptyResult ==
    (pc = "read_failed" /\ Len(rows) >= 1) =>
        /\ success_count = 0 /\ skipped_count = 0 /\ error_count = 0
        /\ errors = <<>>
        /\ CountKind("read_error") = 1
        /\ output = output_before

\* C9: no exception leaves validate_file or transform_file.
C9_NoExceptionEscapes == pc # "raised"

\* C10: a transform_file pass that ends with error_count > 0 under
\* fail_on_error writes nothing and logs that the output was skipped,
\* whatever the buffer holds.
C10_SuppressionLogged ==
    (pc = "done" /\ ~dry_run /\ error_count > 0 /\ fail_on_error) =>
        /\ output = output_before
        /\ "output_skipped" \in LogKinds

(***************************************************************************)
(* The reader and the physical lines of the input.  csv.DictReader hands   *)
(* the loop one record at a time and never hands it an empty line.         *)
(***************************************************************************)
MaxBlankLines == 2

\* the empty lines the reader has passed over so far
BlankLines == lines_read - 1 - Len(rows)

\* DictReader.__next__ meets an empty line: it reads on without yielding
SkipBlankLine ==
    /\ pc = "reading"
    /\ BlankLines < MaxBlankLines
    /\ lines_read' = lines_read + 1
    /\ UNCHANGED <<mapping, pc, dry_run, fail_on_error, rows, success_count,
                   skipped_count, error_count, errors, log_messages, results,
                   output, output_before, row_line>>
    /\ UNCHANGED callVars
    /\ UNCHANGED <<input_path, disk, returned, parked>>

NextLines ==
    \/ validate_file
    \/ transform_file
    \/ OpenInput
    \/ OpenFails
    \/ SkipBlankLine
    \/ ProcessRow
    \/ ReadFails
    \/ FinishWithoutOutput
    \/ FinishOutputSkipped
    \/ FinishOutputWritten
    \/ FinishOutputRaises

\* the File Processor over inputs that may hold empty lines
SpecLines == Init /\ [][NextLines]_vars

\* C11: every RowError carries the physical line of the input on which the
\* row that produced it stands, and that number lies between 2 and the
\* number of physical lines read, empty lines included
C11_LineNumberIsPhysicalLine ==
    \A k \in 1..Len(errors) :
        LET n == errors[k].line_number
        IN  /\ n \in 2..lines_read
            /\ \E i \in 1..Len(rows) :
                 row_line[i] = n /\ rows[i] = errors[k].row_data

(***************************************************************************)
(* Properties of the Row Processor.                                        *)
(***************************************************************************)
\* the positions, in declaration order, of the field mappings whose
\* transform reports an error for the i-th row
FailingMappings(i) ==
    SelectSeq([j \in 1..Len(mapping.field_mappings) |-> j],
              LAMBDA j : transform_value(rows[i], mapping.field_mappings[j],
                                         i + 1).error # <<>>)

\* the RowErrors recorded for the i-th row, in the order of their recording
RecordedErrors(i) == SelectSeq(errors, LAMBDA e : e.line_number = i + 1)

\* C12: for a row that is not skipped, the returned row has exactly the
\* declared destination fields as its keys, in declaration order, and the
\* returned errors are one RowError per field mapping whose transform
\* reported an error, in declaration order, each naming the destination
\* field of its mapping
C12_RowShape ==
    /\ \A k \in 1..Len(results) :
         /\ {results[k].keys[j] : j \in 1..Len(results[k].keys)}
              = {DeclaredFields[j] : j \in 1..Len(DeclaredFields)}
         /\ results[k].keys = Distinct(DeclaredFields)
         /\ DOMAIN results[k].vals
              = {DeclaredFields[j] : j \in 1..Len(DeclaredFields)}
    /\ \A i \in 1..Len(rows) :
         RowResult(i).returned = "row" =>
            LET failing == FailingMappings(i)
                recorded == RecordedErrors(i)
            IN  /\ Len(recorded) = Len(failing)
                /\ \A p \in 1..Len(failing) :
                     LET fm == mapping.field_mappings[failing[p]]
                     IN  /\ recorded[p].field = fm.destination_field
                         /\ <<recorded[p]>>
                              = transform_value(rows[i], fm, i + 1).error

\* a row whose two field mappings both fail has been processed and buffered
C12_Witness ==
    /\ mapping = mapStandard
    /\ results # <<>>
    /\ \E i \in 1..Len(rows) :
         /\ rows[i] = Row(sBadDate, sSELL)
         /\ Len(RecordedErrors(i)) = 2
         /\ RecordedErrors(i)[1].field # RecordedErrors(i)[2].field

(***************************************************************************)
(* One method of a transformer called on its own: the arguments are fixed  *)
(* when the call is made, the call returns once.                           *)
(***************************************************************************)
fileVars ==
    <<mapping, pc, dry_run, fail_on_error, rows, success_count, skipped_count,
      error_count, errors, log_messages, results, output, output_before,
      lines_read, row_line, input_path, disk, returned, parked>>

\* no file is being processed
NoPass ==
    /\ mapping = mapEmpty
    /\ pc = "idle"
    /\ dry_run = TRUE
    /\ fail_on_error = TRUE
    /\ rows = <<>>
    /\ success_count = 0
    /\ skipped_count = 0
    /\ error_count = 0
    /\ errors = <<>>
    /\ log_messages = <<>>
    /\ results = <<>>
    /\ output = NoFile
    /\ output_before = NoFile
    /\ lines_read = 0
    /\ row_line = <<>>
    /\ input_path = ""
    /\ NoSession

\* the call is about to be made on the given arguments
Ready(row_set, cfg_set) ==
    /\ NoPass
    /\ stage = "ready"
    /\ arg_row \in row_set
    /\ arg_cfg \in cfg_set
    /\ ret = <<>>

\* the call returns v
Return(v) ==
    /\ stage = "ready"
    /\ stage' = "returned"
    /\ ret' = v
    /\ UNCHANGED <<arg_row, arg_cfg>>
    /\ UNCHANGED fileVars

(***************************************************************************)
(* The Filter Engine called on its own.                                    *)
(***************************************************************************)
\* the rows handed to should_skip: Type is a known value, an unknown one,
\* empty, or missing from a short row; the column Fee does not exist
FilterRows == {Row(sGoodDate, t) : t \in {sBUY, sSELL, sDEPOSIT, <<>>, None}}

sEP == <<"E", "P">>
sOn == <<"o", "n">>

FilterRules ==
    {FilterRule(cType, "equals", List(<<sBUY>>), sBUY),
     FilterRule(cType, "not_equals", List(<<sBUY>>), sBUY),
     FilterRule(cType, "in", List(<<sBUY, sSELL>>), None),
     FilterRule(cType, "in", NullList, None),
     FilterRule(cType, "not_in", List(<<sDEPOSIT>>), sDEPOSIT),
     FilterRule(cType, "not_in", NullList, None),
     FilterRule(cType, "is_empty", List(<<>>), None),
     FilterRule(cType, "is_not_empty", List(<<>>), None),
     FilterRule(cFee, "is_empty", List(<<>>), None),
     FilterRule(cFee, "equals", List(<<sBUY>>), sBUY),
     FilterRule(cType, "contains", List(<<sEP>>), sEP),
     FilterRule(cType, "contains", List(<<sOn>>), sOn),
     FilterRule(cType, "contains", List(<<>>), None),
     FilterRule(cType, "contains", List(<<>>), <<>>),
     FilterRule(cFee, "contains", List(<<sOn>>), sOn),
     FilterRule(cFee, "contains", List(<<>>), <<>>)}

MaxRules == 2

\* the lists of at most n filter rules
RECURSIVE RuleLists(_)
RuleLists(n) ==
    IF n = 0 THEN {<<>>}
    ELSE RuleLists(n - 1)
         \cup {Append(l, r) : l \in {x \in RuleLists(n - 1) : Len(x) = n - 1},
                              r \in FilterRules}

InitFilter == Ready(FilterRows, RuleLists(MaxRules))

\* transformer.should_skip(row)
CallShouldSkip == Return(should_skip(arg_cfg, arg_row))

NextFilter == CallShouldSkip

SpecFilter == InitFilter /\ [][NextFilter]_vars

(***************************************************************************)
(* Properties of the Filter Engine.                                        *)
(***************************************************************************)
\* the raw value a rule looks at: None when the row has no such field
RawValue(rule, row) == IF rule.field \in DOMAIN row THEN row[rule.field] ELSE None

\* membership of a raw value in `values`; a null `values` has no members
MemberOf(raw, values) ==
    values.tag = "list" /\ \E i \in 1..Len(values.items) : values.items[i] = raw

\* a rule of one of the six comparison operators matches the row
RuleMatches(rule, row) ==
    LET raw == RawValue(rule, row)
    IN  CASE rule.operator = "equals" -> raw = rule.value
          [] rule.operator = "not_equals" -> raw # rule.value
          [] rule.operator = "in" -> MemberOf(raw, rule.values)
          [] rule.operator = "not_in" -> ~MemberOf(raw, rule.values)
          [] rule.operator = "is_empty" -> raw = None \/ raw = <<>>
          [] rule.operator = "is_not_empty" -> ~(raw = None \/ raw = <<>>)
          [] OTHER -> FALSE

ComparisonOperators ==
    {"equals", "not_equals", "in", "not_in", "is_empty", "is_not_empty"}

Reverse(seq) == [i \in 1..Len(seq) |-> seq[Len(seq) + 1 - i]]

\* C13: should_skip(row) is true exactly when at least one filter rule
\* matches the raw row (equals, not_equals, in, not_in, is_empty,
\* is_not_empty as the operators are defined), and the outcome is the same
\* for the rules taken in the opposite order
C13_SkipIffSomeRuleMatches ==
    (/\ stage = "returned"
     /\ \A k \in 1..Len(arg_cfg) : arg_cfg[k].operator \in ComparisonOperators)
    => /\ (ret = "skip") <=> (\E k \in 1..Len(arg_cfg) : RuleMatches(arg_cfg[k], arg_row))
       /\ should_skip(Reverse(arg_cfg), arg_row) = ret

\* str(v), as the text names it: None reads "None"
Stringified(v) == IF v = None THEN <<"N", "o", "n", "e">> ELSE v

\* x is s[i..j] for some i, j
OccursIn(x, s) ==
    \E i \in 1..(Len(s) + 1) : \E j \in 0..Len(s) : SubSeq(s, i, j) = x

ContainsOnly ==
    /\ stage = "returned"
    /\ arg_cfg # <<>>
    /\ \A k \in 1..Len(arg_cfg) : arg_cfg[k].operator = "contains"

\* C14: a contains rule skips the row exactly when its value is a substring
\* of the stringified raw value, the empty string and a missing field
\* included
C14_ContainsIsSubstring ==
    ContainsOnly =>
       ((ret = "skip") <=>
           \E k \in 1..Len(arg_cfg) :
               /\ arg_cfg[k].value # None
               /\ OccursIn(arg_cfg[k].value,
                           Stringified(RawValue(arg_cfg[k], arg_row))))

\* C14, amended: a contains rule skips the row exactly when its value is a
\* non-empty string that is a substring of the stringified raw value ("None"
\* for a missing field); a rule with an empty or null value never matches
C14_ContainsNonEmptySubstring ==
    ContainsOnly =>
       ((ret = "skip") <=>
           \E k \in 1..Len(arg_cfg) :
               /\ arg_cfg[k].value \notin {None, <<>>}
               /\ OccursIn(arg_cfg[k].value,
                           Stringified(RawValue(arg_cfg[k], arg_row))))

\* a rule with the empty value did not match and a rule on a missing field
\* matched the text "None"
C14_Witness ==
    /\ stage = "returned"
    /\ arg_cfg = <<FilterRule(cType, "contains", List(<<>>), <<>>),
                   FilterRule(cFee, "contains", List(<<sOn>>), sOn)>>
    /\ ret = "skip"

(***************************************************************************)
(* The Field Transformer called on its own: the lookup kind.               *)
(***************************************************************************)
sB == <<"B">>
sX == <<"X">>

\* transformer.transform_value(row, field_mapping), line_number left at its
\* default
CallTransformValue == Return(transform_value(arg_row, arg_cfg, 0))

\* the source value transform_value reads for the call
SourceValue ==
    IF arg_cfg.source_field \in {None, <<>>} THEN None
    ELSE IF arg_cfg.source_field \in DOMAIN arg_row
         THEN arg_row[arg_cfg.source_field] ELSE None

\* tables with a null default, a non-null default, no default, a key mapped
\* to null, no entry at all
LookupTables ==
    {(sBUY :> sB) @@ (kDefault :> None),
     (sBUY :> sB) @@ (kDefault :> sX),
     (sBUY :> sB),
     (sBUY :> None) @@ (kDefault :> sX),
     (<<>> :> sB) @@ (kDefault :> None),
     <<>>}

\* the source column holds a mapped value, unmapped ones, the word _default,
\* nothing, or is cut off the row; the column Fee does not exist; a mapping
\* may name no source column
LookupRows == {Row(sGoodDate, t) : t \in {sBUY, sSELL, sDEPOSIT, kDefault, <<>>, None}}

LookupMappings ==
    {FieldMapping("type", source, "lookup", Dict(t)) :
        source \in {cType, cFee, None}, t \in LookupTables}

InitLookup == Ready(LookupRows, LookupMappings)

NextLookup == CallTransformValue

SpecLookup == InitLookup /\ [][NextLookup]_vars

(***************************************************************************)
(* Properties of the lookup transform.                                     *)
(***************************************************************************)
LookupReturned == stage = "returned" /\ arg_cfg.transform_type = "lookup"

\* the entry of the table under _default, null when there is none
DefaultOf(table) == IF kDefault \in DOMAIN table THEN table[kDefault] ELSE None

\* the value the lookup is to return
LookedUp(table, source) ==
    IF source \in DOMAIN table THEN table[source] ELSE DefaultOf(table)

\* the one RowError of the call: destination field and source value
ErrorOfCall(message) ==
    <<RowError(0, arg_cfg.destination_field, message, SourceValue, arg_row)>>

\* C15: lookup returns config[source] when the source value is a key, the
\* _default entry otherwise; whenever the source value is present, is not
\* the _default key and is not a key of the table, it emits exactly one
\* RowError and still returns the default, whether the default is null or
\* not
C15_UnmappedAlwaysFlagged ==
    LookupReturned =>
       LET table == arg_cfg.transform_config.d
       IN  /\ ret.value = LookedUp(table, SourceValue)
           /\ (/\ SourceValue # None
               /\ SourceValue # kDefault
               /\ SourceValue \notin DOMAIN table)
              => ret.error = ErrorOfCall("Lookup value not found in mapping table")

\* C15, amended: lookup returns config[source] when the source value is a
\* key, the _default entry otherwise (null without one); it emits exactly
\* one RowError exactly when the source value is present, is not a key of
\* the table and the value returned is null, and emits none otherwise: an
\* unmapped value under a non-null default is returned as the default
\* without an error
C15_UnmappedFlaggedWithoutDefault ==
    LookupReturned =>
       LET table == arg_cfg.transform_config.d
       IN  /\ ret.value = LookedUp(table, SourceValue)
           /\ ret.error =
                 IF /\ SourceValue # None
                    /\ SourceValue \notin DOMAIN table
                    /\ DefaultOf(table) = None
                 THEN ErrorOfCall("Lookup value not found in mapping table")
                 ELSE <<>>

\* an unmapped value met a non-null default
C15_Witness ==
    /\ LookupReturned
    /\ arg_cfg.transform_config.d = (sBUY :> sB) @@ (kDefault :> sX)
    /\ SourceValue = sSELL
    /\ ret = [value |-> sX, error |-> <<>>]

(***************************************************************************)
(* The Field Transformer called on its own: the date_format kind.          *)
(***************************************************************************)
sBadTZ == <<"T", "0", "2", "Z">>
sBadZ == <<"0", "2", "Z">>
sGoodTZ == <<"2", "0", "2", "0", "T", "0", "2", "Z">>
sGoodFraction == <<"2", "0", "2", "0", "-", "0", "2", ".", "5">>
sBadMonth == <<"2", "0", "2", "0", "-", "1", "3">>
fmtYearTMonth == <<"%", "Y", "T", "%", "m">>

\* the source column holds a date of the format, malformed dates with and
\* without the letters T and Z, nothing, or is cut off the row
DateRows ==
    {Row(d, sBUY) : d \in {sGoodDate, sBadDate, sBadTZ, sBadZ, sGoodTZ,
                           sGoodFraction, sBadMonth, <<>>, None}}

DateConfigs ==
    {(kInputFormat :> fmtYearMonth) @@ (kOutputFormat :> fmtMonthYear),
     (kInputFormat :> fmtYearTMonth) @@ (kOutputFormat :> fmtMonthYear),
     <<>>}

DateMappings ==
    {FieldMapping("date", source, "date_format", Dict(c)) :
        source \in {cDate, cFee}, c \in DateConfigs}

InitDate == Ready(DateRows, DateMappings)

NextDate == CallTransformValue

SpecDate == InitDate /\ [][NextDate]_vars

(***************************************************************************)
(* Properties of the date_format transform.                                *)
(***************************************************************************)
DateReturned == stage = "returned" /\ arg_cfg.transform_type = "date_format"

\* the text handed to strptime: a trailing-Z timestamp loses its Z, the
\* fraction of a second is cut
Parsed(source, config) ==
    LET text == IF HasChar(source, "T") /\ HasChar(source, "Z")
                THEN RemoveChar(source, "Z") ELSE source
    IN  strptime(SplitFirst(text, "."), Get(config, kInputFormat, fmtDefaultIn))

\* C16: for an empty or absent source value date_format returns absent with
\* no error; when the value does not parse with input_format it returns the
\* raw source value exactly as read, no character removed, also for a value
\* holding both T and Z, with exactly one RowError naming the destination
\* field and that raw value
C16_FailureReturnsRawValue ==
    DateReturned =>
       LET config == arg_cfg.transform_config.d
       IN  IF SourceValue \in {None, <<>>}
           THEN ret = [value |-> None, error |-> <<>>]
           ELSE IF Parsed(SourceValue, config).ok
           THEN ret.error = <<>>
           ELSE /\ ret.value = SourceValue
                /\ ret.error = ErrorOfCall("Date format error")

(***************************************************************************)
(* The Field Transformer called on its own: the formula kind.              *)
(***************************************************************************)
sTwo == <<"2">>
sThree == <<"3">>
sTenAndHalf == <<"1", "0", ".", "5">>
sAbc == <<"a", "b", "c">>
eQuantityTimesPrice ==
    <<"q", "u", "a", "n", "t", "i", "t", "y", " ", "*", " ", "p", "r", "i", "c", "e">>
eHalfOfQuantityPlusOne ==
    <<"(", "q", "u", "a", "n", "t", "i", "t", "y", " ", "+", " ", "1", ")", " ", "/", " ", "2">>
eQuotedText == <<"'", "a", "'">>
eQuotedTextTwice == <<"'", "a", "'", " ", "*", " ", "2">>
eDivisionByZero == <<"1", " ", "/", " ", "0">>
eDangling == <<"q", "u", "a", "n", "t", "i", "t", "y", " ", "*">>
eUnknownName == <<"x">>

\* rows of a table with the columns quantity and price (a price that is a
\* number, empty, cut off a short row, or no number), of a table without
\* the column price, and of tables in which one column name is part of
\* another
FormulaRows ==
    {(cQuantity :> q) @@ (cPrice :> p) :
        q \in {sTwo, <<>>}, p \in {sTenAndHalf, <<>>, None, sAbc}}
    \cup {(cQuantity :> sTwo)}
    \cup {(cPrice :> sTenAndHalf) @@ (cPriceTotal :> t) : t \in {sThree, <<>>}}
    \cup {(cTotalFee :> sThree) @@ (cFeeLower :> sTwo)}

FormulaExpressions ==
    {eQuantityTimesPrice, eHalfOfQuantityPlusOne, cPrice, cPriceTotal,
     cTotalFee, cFeeLower, eQuotedText, eQuotedTextTwice, eDivisionByZero,
     eDangling, eUnknownName, <<>>}

FormulaMappings ==
    {FieldMapping("total", None, "formula", Dict(kExpression :> e)) :
        e \in FormulaExpressions}

InitFormula == Ready(FormulaRows, FormulaMappings)

NextFormula == CallTransformValue

SpecFormula == InitFormula /\ [][NextFormula]_vars

(***************************************************************************)
(* Properties of the formula transform.                                    *)
(***************************************************************************)
FormulaReturned == stage = "returned" /\ arg_cfg.transform_type = "formula"

Expression == arg_cfg.transform_config.d[kExpression]

\* the expression after the field substitution
Substituted == Substitute(Columns(arg_row), 1, arg_row, Expression)

ArithmeticChars ==
    {"0", "1", "2", "3", "4", "5", "6", "7", "8", "9", ".", "(", ")", "+", "-",
     "*", "/", " "}

\* the text holds numeric literals, parentheses and + - * / only
IsArithmeticText(text) == \A i \in 1..Len(text) : text[i] \in ArithmeticChars

\* (absent, one RowError)
FormulaFailed ==
    /\ ret.value = None
    /\ ret.error = ErrorOfCall("Formula evaluation failed")

IsNumeric(v) == v # <<>> /\ v[1] \in {"int", "float"}

\* C17: only arithmetic is evaluated: a substituted expression made of
\* numeric literals, parentheses and + - * / gives its number or, when it
\* is malformed or divides by zero, absent with one RowError; every other
\* substituted expression (a name, a string literal, ...) gives absent with
\* one RowError
C17_OnlyArithmeticEvaluated ==
    FormulaReturned =>
       /\ FormulaFailed \/ (ret.error = <<>> /\ IsNumeric(ret.value))
       /\ ~IsArithmeticText(Substituted) => FormulaFailed

\* the number a field stands for: 0 for a missing, empty or non-numeric
\* value, as the fraction <<n, d>>
NumericValue(row, field) ==
    LET raw == IF field \in DOMAIN row THEN row[field] ELSE None
        f == ParseFloat(raw)
    IN  IF raw \in {None, <<>>} \/ ~f.ok THEN <<0, 1>>
        ELSE <<(IF f.neg THEN -1 ELSE 1)
                 * DecimalValue(f.int \o f.frac, 1, Len(f.int) + Len(f.frac) + 1),
               Power10(Len(f.frac))>>

\* the call returned the number n/d and no error
ReturnedNumber(n, d) ==
    /\ ret.error = <<>>
    /\ IsNumeric(ret.value)
    /\ ret.value[2] * d = n * ret.value[3]

\* C18: a field referenced by name is replaced by its numeric value, a field
\* whose raw value is empty, non-numeric or absent by 0: quantity * price
\* gives the product of the two numbers, 0 and no RowError when price is
\* absent
C18_FieldsSubstitutedByNumbers ==
    (FormulaReturned /\ Expression = eQuantityTimesPrice
        /\ cQuantity \in DOMAIN arg_row)
    => LET q == NumericValue(arg_row, cQuantity)
           p == NumericValue(arg_row, cPrice)
       IN  ReturnedNumber(q[1] * p[1], q[2] * p[2])

\* C19: a field name that is part of a longer field name does not corrupt
\* the longer one: an expression that is the name of a column evaluates to
\* the numeric value of that column
C19_LongerNamesFirst ==
    (FormulaReturned /\ Expression \in DOMAIN arg_row)
    => LET v == NumericValue(arg_row, Expression)
       IN  ReturnedNumber(v[1], v[2])

(***************************************************************************)
(* The Field Transformer called on its own: the suffix and prefix kinds.   *)
(***************************************************************************)
cSymbol == <<"S", "y", "m", "b", "o", "l">>
sBTC == <<"B", "T", "C">>
sDashUSD == <<"-", "U", "S", "D">>
condTypeIsBuy ==
    <<"T", "y", "p", "e", " ", "=", "=", " ", "'", "B", "U", "Y", "'">>
condTypeIsNotBuy ==
    <<"T", "y", "p", "e", " ", "!", "=", " ", "'", "B", "U", "Y", "'">>
condTypeInList ==
    <<"T", "y", "p", "e", " ", "i", "n", " ", "[", "'", "B", "U", "Y",
      "'", ",", " ", "'", "D", "E", "P", "'", "]">>
condSingleEquals ==
    <<"T", "y", "p", "e", " ", "=", " ", "'", "B", "U", "Y", "'">>
condNoValue == <<"T", "y", "p", "e", " ", "=", "=">>
condNoField == <<"=", "=", " ", "'", "B", "U", "Y", "'">>

\* the source column Symbol holds a text, nothing, or is cut off the row;
\* the column Fee does not exist
AffixRows ==
    {(cType :> t) @@ (cSymbol :> y) : t \in {sBUY, sSELL}, y \in {sBTC, <<>>, None}}

\* the conditions: true for a BUY row, false for it, a list, and three texts
\* the pattern does not match
AffixConditions ==
    {condTypeIsBuy, condTypeIsNotBuy, condTypeInList, condSingleEquals,
     condNoValue, condNoField}

\* value with no condition, with a null or an empty one, with each
\* condition; no value; a null value; no configuration object at all
AffixConfigs ==
    {Dict(kValue :> sDashUSD),
     Dict((kValue :> sDashUSD) @@ (kCondition :> None)),
     Dict((kValue :> sDashUSD) @@ (kCondition :> <<>>)),
     Dict(<<>>),
     Dict(kValue :> None),
     NullDict}
    \cup {Dict((kValue :> sDashUSD) @@ (kCondition :> c)) : c \in AffixConditions}

AffixMappings ==
    {FieldMapping("symbol", source, kind, config) :
        source \in {cSymbol, cFee}, kind \in {"suffix", "prefix"},
        config \in AffixConfigs}

InitAffix == Ready(AffixRows, AffixMappings)

NextAffix == CallTransformValue

SpecAffix == InitAffix /\ [][NextAffix]_vars

(***************************************************************************)
(* Properties of the suffix transform.                                     *)
(***************************************************************************)
\* a suffix or prefix call under a configuration object has returned
AffixReturned ==
    /\ stage = "returned"
    /\ arg_cfg.transform_type \in {"suffix", "prefix"}
    /\ arg_cfg.transform_config.tag = "dict"

\* the configured condition, None when there is none
ConfiguredCondition ==
    IF kCondition \in DOMAIN arg_cfg.transform_config.d
    THEN arg_cfg.transform_config.d[kCondition] ELSE None

\* the configured value as text, the empty text when there is none
ConfiguredValue ==
    IF kValue \in DOMAIN arg_cfg.transform_config.d
    THEN Stringified(arg_cfg.transform_config.d[kValue]) ELSE <<>>

sA == <<"A">>
sE == <<"E">>

\* entries of a conditions list: a condition true for a BUY row, one false
\* for it, an else entry, a condition without a then value, a text the
\* pattern does not match, an entry with both keys, one with neither, and
\* one whose condition is null
entryBuy == (kIf :> condTypeIsBuy) @@ (kThen :> sA)
entryNotBuy == (kIf :> condTypeIsNotBuy) @@ (kThen :> sB)
entryElse == (kElse :> sE)
entryNoThen == (kIf :> condTypeIsBuy)
entryMalformed == (kIf :> condNoValue) @@ (kThen :> sX)
entryIfAndElse == (kIf :> condTypeIsNotBuy) @@ (kThen :> sB) @@ (kElse :> sE)
entryThenOnly == (kThen :> sX)
entryNullIf == (kIf :> None) @@ (kThen :> sA)

ConditionalEntries ==
    {entryBuy, entryNotBuy, entryElse, entryNoThen, entryMalformed,
     entryIfAndElse, entryThenOnly, entryNullIf}

MaxEntries == 2

\* the lists of at most n entries
RECURSIVE EntryLists(_)
EntryLists(n) ==
    IF n = 0 THEN {<<>>}
    ELSE EntryLists(n - 1)
         \cup {Append(l, e) : l \in {x \in EntryLists(n - 1) : Len(x) = n - 1},
                              e \in ConditionalEntries}

\* a list of entries, a null list, no list, no configuration object
ConditionalConfigs ==
    {Dict(kConditions :> List(l)) : l \in EntryLists(MaxEntries)}
    \cup {Dict(kConditions :> NullList), Dict(<<>>), NullDict}

\* the column Type holds BUY, SELL, or is missing from the row
ConditionalRows ==
    {(cType :> sBUY) @@ (cSymbol :> sBTC), (cType :> sSELL) @@ (cSymbol :> sBTC),
     (cSymbol :> sBTC)}

ConditionalMappings ==
    {FieldMapping("side", None, "conditional", config) :
        config \in ConditionalConfigs}

InitConditional == Ready(ConditionalRows, ConditionalMappings)

NextConditional == CallTransformValue

SpecConditional == InitConditional /\ [][NextConditional]_vars

(***************************************************************************)
(* Properties of the conditional transform.                                *)
(***************************************************************************)
ConditionalReturned ==
    stage = "returned" /\ arg_cfg.transform_type = "conditional"

\* the call was given a configuration object whose conditions are a list
HasConditionList ==
    /\ arg_cfg.transform_config.tag = "dict"
    /\ kConditions \in DOMAIN arg_cfg.transform_config.d
          => arg_cfg.transform_config.d[kConditions].tag = "list"

\* the configured entries, none when the key is missing
ConfiguredEntries ==
    IF HasConditionList /\ kConditions \in DOMAIN arg_cfg.transform_config.d
    THEN arg_cfg.transform_config.d[kConditions].items
    ELSE <<>>

\* entry i has an `if` condition that is a text and evaluates true over the row
IfHolds(i) ==
    /\ kIf \in DOMAIN ConfiguredEntries[i]
    /\ ConfiguredEntries[i][kIf] # None
    /\ evaluate_condition(arg_row, ConfiguredEntries[i][kIf])

\* entry i is an else entry: it has the key `else` and no `if`
IsElse(i) ==
    kIf \notin DOMAIN ConfiguredEntries[i] /\ kElse \in DOMAIN ConfiguredEntries[i]

\* entry i has an `if` condition that is null
IfIsNull(i) ==
    kIf \in DOMAIN ConfiguredEntries[i] /\ ConfiguredEntries[i][kIf] = None

\* the value of the key `then` of entry i, absent when it has none
ThenOf(i) ==
    IF kThen \in DOMAIN ConfiguredEntries[i] THEN ConfiguredEntries[i][kThen]
    ELSE None

\* the least index of the set, 0 when it is empty
Least(S) == IF S = {} THEN 0 ELSE CHOOSE i \in S : \A j \in S : i <= j

\* C21 as stated: the conditional transform returns the `then` value of the
\* first entry whose `if` condition evaluates true; if no `if` condition of
\* the whole list evaluates true it returns the `else` value when an else
\* entry exists, and absent otherwise; it never emits an error
C21_ElseOnlyAfterEveryIf ==
    ConditionalReturned =>
       /\ ret.error = <<>>
       /\ LET first == Least({i \in 1..Len(ConfiguredEntries) : IfHolds(i)})
              else == Least({i \in 1..Len(ConfiguredEntries) : IsElse(i)})
          IN  ret.value = IF first # 0 THEN ThenOf(first)
                          ELSE IF else # 0 THEN ConfiguredEntries[else][kElse]
                          ELSE None

\* C21: the conditional transform scans the entries in list order and stops
\* at the first entry that either has an `if` condition evaluating true over
\* the raw row, whose `then` value it returns (absent when the entry has
\* none), or is an else entry, whose `else` value it returns: entries after
\* an else entry are never looked at.  With no such entry it returns absent.
\* None of this emits an error; the only error is the "Unexpected error" of
\* a configuration that is null, has a null conditions list, or reaches an
\* entry whose `if` is null
C21_ElseEndsTheScan ==
    ConditionalReturned =>
       LET stop == Least({i \in 1..Len(ConfiguredEntries) :
                             IfHolds(i) \/ IsElse(i) \/ IfIsNull(i)})
       IN  IF ~HasConditionList \/ (stop # 0 /\ IfIsNull(stop))
           THEN /\ ret.value = None
                /\ Len(ret.error) = 1
                /\ ret.error[1].error_message = "Unexpected error"
           ELSE /\ ret.error = <<>>
                /\ ret.value = IF stop = 0 THEN None
                               ELSE IF IsElse(stop)
                               THEN ConfiguredEntries[stop][kElse]
                               ELSE ThenOf(stop)

\* for a BUY row, an else entry followed by an entry whose condition holds
\* gave the else value
C21_Witness ==
    /\ ConditionalReturned
    /\ arg_row = (cType :> sBUY) @@ (cSymbol :> sBTC)
    /\ ConfiguredEntries = <<entryElse, entryBuy>>
    /\ ret = [value |-> sE, error |-> <<>>]

(***************************************************************************)
(* The Condition Evaluator called on its own.                              *)
(***************************************************************************)
condUnquoted == <<"T", "y", "p", "e", " ", "=", "=", " ", "B", "U", "Y">>
condDoubleQuoted ==
    <<"T", "y", "p", "e", " ", "=", "=", " ", "\"", "B", "U", "Y", "\"">>
condPadded ==
    <<" ", "T", "y", "p", "e", "=", "=", "'", "B", "U", "Y", "'", " ">>
condInNoBrackets ==
    <<"T", "y", "p", "e", " ", "i", "n", " ", "'", "B", "U", "Y", "'">>
condGluedIn ==
    <<"T", "y", "p", "e", "i", "n", " ", "[", "'", "B", "U", "Y", "'", "]">>
condEmptyList == <<"T", "y", "p", "e", " ", "i", "n", " ", "[", "]">>
condNotBuyAndMore ==
    <<"T", "y", "p", "e", " ", "!", "=", " ", "'", "B", "U", "Y", "'", " ",
      "a", "n", "d", " ", "F", "e", "e", " ", "=", "=", " ", "'", "1", "'">>
condFeeIsNone ==
    <<"F", "e", "e", " ", "=", "=", " ", "'", "N", "o", "n", "e", "'">>
condFeeIsNotNone ==
    <<"F", "e", "e", " ", "!", "=", " ", "'", "N", "o", "n", "e", "'">>
condFeeInList ==
    <<"F", "e", "e", " ", "i", "n", " ", "[", "'", "1", "'", ",", " ", "'",
      "N", "o", "n", "e", "'", "]">>

\* texts of the three forms, texts the pattern does not match, texts the
\* pattern matches although they are not of the three forms, the empty text
\* and a condition that is no text
Conditions ==
    AffixConditions
    \cup {condUnquoted, condDoubleQuoted, condPadded, condInNoBrackets,
          condGluedIn, condEmptyList, condNotBuyAndMore, condFeeIsNone,
          condFeeIsNotNone, condFeeInList, <<>>, None}

\* the column Type holds a value, the empty text, null (a short line), or is
\* missing; the column Fee does not exist
ConditionRows ==
    {(cType :> t) @@ (cSymbol :> sBTC) : t \in {sBUY, sSELL, <<>>, None}}
    \cup {(cSymbol :> sBTC)}

\* transformer._evaluate_condition(row, condition): condition.strip() raises
\* on a condition that is no text
EvaluateCondition(row, condition) ==
    IF condition = None THEN [raised |-> TRUE, value |-> FALSE]
    ELSE [raised |-> FALSE, value |-> evaluate_condition(row, condition)]

CallEvaluateCondition == Return(EvaluateCondition(arg_row, arg_cfg))

InitCondition == Ready(ConditionRows, Conditions)

NextCondition == CallEvaluateCondition

SpecCondition == InitCondition /\ [][NextCondition]_vars

(***************************************************************************)
(* Properties of the Condition Evaluator.  The grammar is                  *)
(* <identifier> <op> <literal>: the literal of == and != is one quoted     *)
(* string, the literal of `in` a bracketed list of quoted strings.         *)
(***************************************************************************)
\* the identifier that starts the text
GrammarField(s) == SubSeq(s, 1, WordEnd(s, 1) - 1)

\* where the operator must start, and the literal after it
GrammarOperatorAt(s) == SkipSpaces(s, WordEnd(s, 1))
GrammarLiteralAt(s) == SkipSpaces(s, GrammarOperatorAt(s) + 2)

\* s[p..last] is one quoted string
IsQuotedString(s, p, last) ==
    /\ p < last
    /\ IsQuote(s[p])
    /\ QuoteEnd(s, p + 1, s[p]) = last

\* s[i..last] as quoted strings separated by commas: [ok, items]
RECURSIVE GrammarItems(_, _, _)
GrammarItems(s, i, last) ==
    LET p == SkipSpaces(s, i)
        q == IF p <= last /\ IsQuote(s[p]) THEN QuoteEnd(s, p + 1, s[p]) ELSE 0
        n == SkipSpaces(s, q + 1)
    IN  IF p > last THEN [ok |-> TRUE, items |-> <<>>]
        ELSE IF q = 0 \/ q > last THEN [ok |-> FALSE, items |-> <<>>]
        ELSE IF n > last THEN [ok |-> TRUE, items |-> <<SubSeq(s, p + 1, q - 1)>>]
        ELSE IF s[n] # "," THEN [ok |-> FALSE, items |-> <<>>]
        ELSE LET rest == GrammarItems(s, n + 1, last)
             IN  [ok |-> rest.ok,
                  items |-> <<SubSeq(s, p + 1, q - 1)>> \o rest.items]

\* the text read by the grammar: [form, field, literal, items], form "none"
\* for a text that is not of the grammar
GrammarParse(s) ==
    LET op == OperatorAt(s, GrammarOperatorAt(s))
        p == GrammarLiteralAt(s)
        none == [form |-> "none", field |-> <<>>, literal |-> <<>>, items |-> <<>>]
    IN  IF GrammarField(s) = <<>> \/ op = "" THEN none
        ELSE IF op \in {"==", "!="}
        THEN IF IsQuotedString(s, p, Len(s))
             THEN [form |-> op, field |-> GrammarField(s),
                   literal |-> SubSeq(s, p + 1, Len(s) - 1), items |-> <<>>]
             ELSE none
        ELSE IF p < Len(s) /\ s[p] = "[" /\ s[Len(s)] = "]"
                /\ GrammarItems(s, p + 1, Len(s) - 1).ok
        THEN [form |-> "in", field |-> GrammarField(s), literal |-> <<>>,
              items |-> GrammarItems(s, p + 1, Len(s) - 1).items]
        ELSE none

\* the row value of the field coerced to string
RowText(row, field) == IF field \in DOMAIN row THEN Stringified(row[field])
                       ELSE Stringified(None)

\* what the grammar makes of a condition over a row
GrammarValue(row, g) ==
    CASE g.form = "==" -> RowText(row, g.field) = g.literal
      [] g.form = "!=" -> RowText(row, g.field) # g.literal
      [] g.form = "in" -> \E i \in 1..Len(g.items) : g.items[i] = RowText(row, g.field)
      [] OTHER -> FALSE

\* _evaluate_condition has returned or raised on a condition that is a text
ConditionEvaluated == stage = "returned" /\ arg_cfg # None

\* C22: for `f == 'v'` the Condition Evaluator returns true iff the row
\* value of f coerced to string equals v, for `f != 'v'` the negation of
\* that, for `f in ['a','b',...]` true iff the coerced row value is one of
\* the listed strings, and for every text that is not of the form
\* <identifier> <op> <literal> it returns false; it never raises
C22_EvaluatesTheGrammarOnly ==
    ConditionEvaluated =>
       /\ ~ret.raised
       /\ ret.value = GrammarValue(arg_row, GrammarParse(Strip(arg_cfg)))

(***************************************************************************)
(* Several calls on one DynamicTransformer, one after the other.  What a   *)
(* call reads is what the disk holds at its input_path.                    *)
(***************************************************************************)
pathA == "a.csv"
pathB == "b.csv"

\* what a reader finds at a path: whether the file opens, its data rows, and
\* the row on the way to which the read raises (0: the read never raises)
InputFile(opens, data, fails_at) ==
    [opens |-> opens, rows |-> data, fails_at |-> fails_at]

\* the three-row example, the same file with a read failure before its
\* second row, two rows that fail or are cut short, a header alone, and a
\* file that does not open
InputFiles ==
    {InputFile(TRUE, ExampleRows, 0),
     InputFile(TRUE, ExampleRows, 2),
     InputFile(TRUE, <<Row(sBadDate, sSELL), Row(<<>>, None)>>, 0),
     InputFile(TRUE, <<>>, 0),
     InputFile(FALSE, <<>>, 0)}

MaxCalls == 3

\* DynamicTransformer(mapping_config) and two files on disk, no call made yet
InitSession ==
    /\ mapping \in Mappings
    /\ pc = "idle"
    /\ dry_run = TRUE
    /\ fail_on_error = TRUE
    /\ rows = <<>>
    /\ success_count = 0
    /\ skipped_count = 0
    /\ error_count = 0
    /\ errors = <<>>
    /\ log_messages = <<>>
    /\ results = <<>>
    /\ output = NoFile
    /\ output_before = output
    /\ lines_read = 0
    /\ row_line = <<>>
    /\ NoCall
    /\ input_path = pathA
    /\ disk \in {(pathA :> a) @@ (pathB :> b) : a \in InputFiles, b \in InputFiles}
    /\ returned = <<>>
    /\ parked = <<>>

\* transformer.validate_file(path)
CallValidate ==
    /\ Len(returned) + Len(parked) < MaxCalls
    /\ \E path \in DOMAIN disk : StartPassOn(path, TRUE, TRUE)

\* transformer.transform_file(path, output_path, fail_on_error)
CallTransform ==
    /\ Len(returned) + Len(parked) < MaxCalls
    /\ \E path \in DOMAIN disk, foe \in BOOLEAN : StartPassOn(path, FALSE, foe)

\* the read raises on the way to the next row
NextReadRaises == disk[input_path].fails_at = Len(rows) + 1

OpenFile == disk[input_path].opens /\ OpenInput

OpenFileFails == ~disk[input_path].opens /\ OpenFails

\* the loop body for the next row of the file
ReadRow ==
    /\ ~NextReadRaises
    /\ Len(rows) < Len(disk[input_path].rows)
    /\ ProcessRowOf(disk[input_path].rows[Len(rows) + 1])

ReadRowFails == NextReadRaises /\ ReadFails

\* the reader has delivered every row of the file
Exhausted == ~NextReadRaises /\ Len(rows) = Len(disk[input_path].rows)

EndWithoutOutput == Exhausted /\ FinishWithoutOutput

EndOutputSkipped == Exhausted /\ FinishOutputSkipped

EndOutputWritten == Exhausted /\ FinishOutputWritten

EndOutputRaises == Exhausted /\ FinishOutputRaises

\* the TransformResult the running call holds
TransformResult ==
    [success_count |-> success_count, skipped_count |-> skipped_count,
     error_count |-> error_count, errors |-> errors,
     log_messages |-> log_messages]

\* `return result`, or the exception of the write leaving the call: the
\* caller has the outcome, the transformer is free for the next call
ReturnResult ==
    /\ pc \in {"done", "read_failed", "raised"}
    /\ pc' = "idle"
    /\ returned' = Append(returned,
                          [input_path |-> input_path, dry_run |-> dry_run,
                           fail_on_error |-> fail_on_error,
                           raised |-> (pc = "raised"),
                           result |-> TransformResult,
                           output |-> output])
    /\ UNCHANGED <<mapping, dry_run, fail_on_error, rows, success_count,
                   skipped_count, error_count, errors, log_messages, results,
                   output, output_before, lines_read, row_line, input_path,
                   disk, parked>>
    /\ UNCHANGED callVars

NextSession ==
    \/ CallValidate
    \/ CallTransform
    \/ OpenFile
    \/ OpenFileFails
    \/ ReadRow
    \/ ReadRowFails
    \/ EndWithoutOutput
    \/ EndOutputSkipped
    \/ EndOutputWritten
    \/ EndOutputRaises
    \/ ReturnResult

SpecSession == InitSession /\ [][NextSession]_vars

(***************************************************************************)
(* Properties of repeated calls.                                           *)
(***************************************************************************)
\* the calls of validate_file on a path that have returned, by position
ValidationsOf(path) ==
    {i \in 1..Len(returned) : returned[i].dry_run /\ returned[i].input_path = path}

\* C23: two runs of validate_file on the same input, on the same
\* transformer, whatever it processed in between, return identical counts,
\* RowError lists and log lines
C23_ValidateIsRepeatable ==
    \A path \in {pathA, pathB} :
        \A i \in ValidationsOf(path), j \in ValidationsOf(path) :
            /\ returned[i].result = returned[j].result
            /\ ~returned[i].raised

\* a.csv validated with errors, then another file transformed, then a.csv
\* validated again
C23_Witness ==
    /\ Len(returned) = 3
    /\ returned[1].dry_run /\ returned[1].input_path = pathA
    /\ returned[1].result.error_count > 0
    /\ returned[1].result.success_count > 0
    /\ ~returned[2].dry_run /\ returned[2].input_path = pathB
    /\ returned[2].result.error_count > 0
    /\ returned[3].dry_run /\ returned[3].input_path = pathA

(***************************************************************************)
(* Two calls on one DynamicTransformer at the same time, each on its own   *)
(* input and output file.  The locals of _process_file belong to the call: *)
(* while a call is not running they are parked, and a switch of the        *)
(* running call may come between any two steps.  The transformer's         *)
(* attributes are the same object for both calls.                          *)
(***************************************************************************)
\* the locals of the running call, and the file at its output_path
Locals ==
    [pc |-> pc, dry_run |-> dry_run, fail_on_error |-> fail_on_error,
     rows |-> rows, success_count |-> success_count,
     skipped_count |-> skipped_count, error_count |-> error_count,
     errors |-> errors, log_messages |-> log_messages, results |-> results,
     output |-> output, output_before |-> output_before,
     lines_read |-> lines_read, row_line |-> row_line,
     input_path |-> input_path]

\* variant: the buffer of output rows and the error list are one object for
\* all calls, a switch leaves them as the other call left them
Switch_SharedLists(k) ==
    /\ parked' = [parked EXCEPT ![k] = Locals]
    /\ pc' = parked[k].pc
    /\ dry_run' = parked[k].dry_run
    /\ fail_on_error' = parked[k].fail_on_error
    /\ rows' = parked[k].rows
    /\ success_count' = parked[k].success_count
    /\ skipped_count' = parked[k].skipped_count
    /\ error_count' = parked[k].error_count
    /\ log_messages' = parked[k].log_messages
    /\ output' = parked[k].output
    /\ output_before' = parked[k].output_before
    /\ lines_read' = parked[k].lines_read
    /\ row_line' = parked[k].row_line
    /\ input_path' = parked[k].input_path
    /\ UNCHANGED <<errors, results>>
    /\ UNCHANGED <<mapping, disk, returned>>
    /\ UNCHANGED callVars

\* the running call is suspended and the k-th parked call goes on
Switch(k) ==
    /\ parked' = [parked EXCEPT ![k] = Locals]
    /\ pc' = parked[k].pc
    /\ dry_run' = parked[k].dry_run
    /\ fail_on_error' = parked[k].fail_on_error
    /\ rows' = parked[k].rows
    /\ success_count' = parked[k].success_count
    /\ skipped_count' = parked[k].skipped_count
    /\ error_count' = parked[k].error_count
    /\ errors' = parked[k].errors
    /\ log_messages' = parked[k].log_messages
    /\ results' = parked[k].results
    /\ output' = parked[k].output
    /\ output_before' = parked[k].output_before
    /\ lines_read' = parked[k].lines_read
    /\ row_line' = parked[k].row_line
    /\ input_path' = parked[k].input_path
    /\ UNCHANGED <<mapping, disk, returned>>
    /\ UNCHANGED callVars

SwitchCall == \E k \in 1..Len(parked) : Switch(k)

\* the pairs of files the two calls read
ParallelDisks ==
    {(pathA :> InputFile(TRUE, ExampleRows, 0))
        @@ (pathB :> InputFile(TRUE, <<Row(sBadDate, sSELL), Row(<<>>, None)>>, 0)),
     (pathA :> InputFile(TRUE, ExampleRows, 2))
        @@ (pathB :> InputFile(TRUE, <<Row(sGoodDate, sBUY)>>, 0)),
     (pathA :> InputFile(FALSE, <<>>, 0))
        @@ (pathB :> InputFile(TRUE, ExampleRows, 0))}

\* a call that has not started
IdleOn(path) ==
    [pc |-> "idle", dry_run |-> TRUE, fail_on_error |-> TRUE, rows |-> <<>>,
     success_count |-> 0, skipped_count |-> 0, error_count |-> 0,
     errors |-> <<>>, log_messages |-> <<>>, results |-> <<>>,
     output |-> NoFile, output_before |-> NoFile, lines_read |-> 0,
     row_line |-> <<>>, input_path |-> path]

\* one transformer, one call about to be made on a.csv and one on b.csv
InitParallel ==
    /\ mapping \in Mappings
    /\ pc = "idle"
    /\ dry_run = TRUE
    /\ fail_on_error = TRUE
    /\ rows = <<>>
    /\ success_count = 0
    /\ skipped_count = 0
    /\ error_count = 0
    /\ errors = <<>>
    /\ log_messages = <<>>
    /\ results = <<>>
    /\ output = NoFile
    /\ output_before = NoFile
    /\ lines_read = 0
    /\ row_line = <<>>
    /\ NoCall
    /\ input_path = pathA
    /\ disk \in ParallelDisks
    /\ returned = <<>>
    /\ parked = <<IdleOn(pathB)>>

\* the call on the running call's file has not been made yet
NotCalled == \A i \in 1..Len(returned) : returned[i].input_path # input_path

StartValidate == NotCalled /\ validate_file

StartTransform == NotCalled /\ transform_file

NextParallel ==
    \/ StartValidate
    \/ StartTransform
    \/ OpenFile
    \/ OpenFileFails
    \/ ReadRow
    \/ ReadRowFails
    \/ EndWithoutOutput
    \/ EndOutputSkipped
    \/ EndOutputWritten
    \/ EndOutputRaises
    \/ ReturnResult
    \/ SwitchCall

SpecParallel == InitParallel /\ [][NextParallel]_vars

(***************************************************************************)
(* Properties of calls made at the same time.  What a call returns when it *)
(* is the only one is a function of the configuration, the file and the    *)
(* call's parameters.                                                      *)
(***************************************************************************)
\* the result and the buffer after one more row, tr being what the Row
\* Processor makes of it
AloneAfterRow(acc, tr, row, line_number, dry) ==
    IF tr.returned = "raise"
    THEN [acc EXCEPT !.errors = Append(@, RowError(line_number, "*",
                                                   "Row processing failed", None, row)),
                     !.error_count = @ + 1]
    ELSE [success_count |-> acc.success_count
                            + (IF Truthy(tr) /\ tr.errors = <<>> THEN 1 ELSE 0),
          skipped_count |-> acc.skipped_count + (IF Truthy(tr) THEN 0 ELSE 1),
          error_count |-> acc.error_count + Len(tr.errors),
          errors |-> acc.errors \o tr.errors,
          log_messages |->
              Append(acc.log_messages,
                     IF ~Truthy(tr) THEN <<"line", line_number, "Skipped (filtered out)", 0>>
                     ELSE IF tr.errors # <<>>
                     THEN <<"line", line_number, "Has errors", Len(tr.errors)>>
                     ELSE <<"line", line_number,
                            IF dry THEN "Valid" ELSE "Transformed successfully", 0>>),
          results |-> IF Truthy(tr) THEN Append(acc.results, tr.result)
                      ELSE acc.results]

\* the result and the buffer after the first n rows of the file
RECURSIVE AloneRows(_, _, _, _, _)
AloneRows(m, path, data, n, dry) ==
    IF n = 0
    THEN [success_count |-> 0, skipped_count |-> 0, error_count |-> 0,
          errors |-> <<>>,
          log_messages |->
              << <<"mode", IF dry THEN "Validating" ELSE "Transforming", path>>,
                 <<"mapping", m.name>>,
                 <<"counts", Len(m.field_mappings), Len(m.filter_rules)>>,
                 <<"columns", fieldnames>> >>,
          results |-> <<>>]
    ELSE AloneAfterRow(AloneRows(m, path, data, n - 1, dry),
                       transform_row(m, data[n], n + 1), data[n], n + 1, dry)

\* the table written from a buffer of output rows
AloneTable(buffer) ==
    [exists |-> TRUE,
     header |-> buffer[1].keys,
     rows |-> [i \in 1..Len(buffer) |->
                 [j \in 1..Len(buffer[1].keys) |->
                     CsvCell(buffer[i].vals[buffer[1].keys[j]])]]]

\* the TransformResult of an accumulated result, ended by the given lines
AloneResult(acc, last_lines) ==
    [success_count |-> acc.success_count, skipped_count |-> acc.skipped_count,
     error_count |-> acc.error_count, errors |-> acc.errors,
     log_messages |-> acc.log_messages \o last_lines]

\* the end of a call whose read pass went through
AloneEnd(acc, dry, foe, before) ==
    LET summary == <<"summary", IF dry THEN "Validation" ELSE "Transformation",
                     acc.success_count, acc.skipped_count, acc.error_count>>
    IN  IF dry \/ acc.results = <<>>
        THEN [result |-> AloneResult(acc, <<summary>>), output |-> before]
        ELSE IF acc.error_count > 0 /\ foe
        THEN [result |-> AloneResult(acc, << <<"output_skipped", acc.error_count>>,
                                             summary >>),
              output |-> before]
        ELSE [result |-> AloneResult(acc, << <<"output_written">>, summary >>),
              output |-> AloneTable(acc.results)]

\* what a call returns and leaves at its output_path when it is the only
\* call on the transformer
Alone(m, path, file, dry, foe, before) ==
    IF ~file.opens
    THEN [result |-> [success_count |-> 0, skipped_count |-> 0, error_count |-> 0,
                      errors |-> <<>>,
                      log_messages |->
                          SubSeq(AloneRows(m, path, <<>>, 0, dry).log_messages, 1, 3)
                          \o << <<"read_error">> >>],
          output |-> before]
    ELSE IF file.fails_at # 0
    THEN [result |-> AloneResult(AloneRows(m, path, file.rows, file.fails_at - 1, dry),
                                 << <<"read_error">> >>),
          output |-> before]
    ELSE AloneEnd(AloneRows(m, path, file.rows, Len(file.rows), dry), dry, foe, before)

\* every call that has returned a result returned what it returns alone,
\* and left at its output_path what it leaves alone
ReturnedAsAlone ==
    \A i \in 1..Len(returned) :
        ~returned[i].raised =>
            LET alone == Alone(mapping, returned[i].input_path,
                               disk[returned[i].input_path], returned[i].dry_run,
                               returned[i].fail_on_error, NoFile)
            IN  /\ returned[i].result = alone.result
                /\ returned[i].output = alone.output

\* C24: when two File Processor calls on one transformer process different
\* input and output files at the same time, then under every interleaving
\* of their steps each call returns the TransformResult (counts, errors, log
\* lines) and writes the output it returns and writes when run alone, and
\* the mapping configuration is never modified
C24_CallsDoNotInterfere ==
    /\ []ReturnedAsAlone
    /\ [][mapping' = mapping]_vars

\* both calls are in the middle of their files at the same time, each with
\* a RowError recorded
C24_Witness ==
    /\ returned = <<>>
    /\ pc = "reading" /\ input_path = pathA /\ ~dry_run
    /\ Len(rows) = 2 /\ error_count = 1
    /\ parked[1].pc = "reading" /\ parked[1].input_path = pathB
    /\ ~parked[1].dry_run
    /\ Len(parked[1].rows) = 1 /\ parked[1].error_count > 0

(***************************************************************************)
(* Properties of the log of a pass.                                        *)
(***************************************************************************)
\* the kind of the k-th log line
LogKind(k) == log_messages[k][1]

\* C25: the log of a completed pass is, in this order: the mode and source
\* file name line, the mapping name line, the counts line, the source
\* columns line, one per-line status entry for every data row read, in line
\* order, at most one output line, and last the summary line with the
\* result's success_count, skipped_count and error_count
C25_LogOrder ==
    pc = "done" =>
        /\ Len(log_messages) - Len(rows) \in {5, 6}
        /\ LogKind(1) = "mode" /\ log_messages[1][3] = input_path
        /\ LogKind(2) = "mapping" /\ log_messages[2][2] = mapping.name
        /\ LogKind(3) = "counts"
        /\ LogKind(4) = "columns"
        /\ \A i \in 1..Len(rows) :
              LogKind(4 + i) = "line" /\ log_messages[4 + i][2] = i + 1
        /\ Len(log_messages) - Len(rows) = 6
              => LogKind(Len(rows) + 5) \in {"output_written", "output_skipped"}
        /\ log_messages[Len(log_messages)] =
              <<"summary", IF dry_run THEN "Validation" ELSE "Transformation",
                success_count, skipped_count, error_count>>

(***************************************************************************)
(* The File Processor under configurations in which two field mappings     *)
(* declare the same destination_field.                                     *)
(***************************************************************************)
\* a date_format and a lookup that both write "date", around the lookup of
\* "type": each of the three can fail
mapDuplicateFailing ==
    [name |-> "duplicate_failing",
     field_mappings |-> <<fmDate, fmType,
                          FieldMapping("date", cType, "lookup",
                                       Dict((sBUY :> sGoodDate) @@ (kDefault :> None)))>>,
     filter_rules |-> <<FilterRule(cType, "in", List(<<sDEPOSIT>>), None)>>]

\* the later of the two is a constant: it cannot fail, the earlier one can
mapDuplicateConstant ==
    [name |-> "duplicate_constant",
     field_mappings |-> <<fmDate,
                          FieldMapping("date", None, "constant", Dict(kValue :> sX)),
                          fmType>>,
     filter_rules |-> <<>>]

\* the same destination three times
mapTriplicate ==
    [name |-> "triplicate",
     field_mappings |-> <<FieldMapping("date", cType, "direct", Dict(<<>>)),
                          fmDate,
                          FieldMapping("date", cDate, "direct", Dict(<<>>))>>,
     filter_rules |-> <<>>]

DuplicateMappings ==
    {mapDuplicate, mapDuplicateFailing, mapDuplicateConstant, mapTriplicate}

InitDuplicates ==
    /\ mapping \in DuplicateMappings
    /\ pc = "idle"
    /\ dry_run = TRUE
    /\ fail_on_error = TRUE
    /\ rows = <<>>
    /\ success_count = 0
    /\ skipped_count = 0
    /\ error_count = 0
    /\ errors = <<>>
    /\ log_messages = <<>>
    /\ results = <<>>
    /\ output \in {NoFile, OldFile}
    /\ output_before = output
    /\ lines_read = 0
    /\ row_line = <<>>
    /\ NoCall
    /\ input_path = "input.csv"
    /\ NoSession

SpecDuplicates == InitDuplicates /\ [][Next]_vars

(***************************************************************************)
(* Properties of duplicate destination fields.                             *)
(***************************************************************************)
\* the positions of the mappings that declare the destination field f
DeclaredAt(f) ==
    {j \in 1..Len(mapping.field_mappings) :
        mapping.field_mappings[j].destination_field = f}

\* what the j-th mapping makes of the i-th row
ValueOf(i, j) == transform_value(rows[i], mapping.field_mappings[j], i + 1)

\* the RowErrors the mappings 1..j emit for the i-th row, in declaration order
RECURSIVE EmittedErrors(_, _)
EmittedErrors(i, j) ==
    IF j = 0 THEN <<>> ELSE EmittedErrors(i, j - 1) \o ValueOf(i, j).error

\* the RowErrors of the rows 1..n that no filter rule matched
RECURSIVE EmittedUpTo(_)
EmittedUpTo(n) ==
    IF n = 0 THEN <<>>
    ELSE EmittedUpTo(n - 1)
         \o (IF RowResult(n).returned = "row"
             THEN EmittedErrors(n, Len(mapping.field_mappings)) ELSE <<>>)

\* the first positions of the destination fields, in declaration order
FirstPositions ==
    {j \in 1..Len(mapping.field_mappings) :
        \A k \in 1..(j - 1) : mapping.field_mappings[k].destination_field
                               # mapping.field_mappings[j].destination_field}

\* C26: when two field mappings declare the same destination_field, the
\* output row has a single entry for it, at the column position of the
\* earlier mapping and holding the value of the later one; no configuration
\* error is raised, and the RowErrors of both mappings are recorded and
\* counted in error_count
C26_LaterValueEarlierPosition ==
    InPass =>
        /\ \A k \in 1..Len(errors) : errors[k].field # "*"
        /\ errors = EmittedUpTo(Len(rows))
        /\ error_count = Len(EmittedUpTo(Len(rows)))
        /\ \A k \in 1..Len(results) :
              LET i == KeptRows(Len(rows))[k]
              IN  /\ Len(results[k].keys) = Cardinality(FirstPositions)
                  /\ \A p \in 1..Len(results[k].keys) :
                        LET f == results[k].keys[p]
                            first == CHOOSE j \in DeclaredAt(f) :
                                        \A x \in DeclaredAt(f) : j <= x
                            last == CHOOSE j \in DeclaredAt(f) :
                                        \A x \in DeclaredAt(f) : j >= x
                        IN  /\ Cardinality({j \in FirstPositions : j <= first}) = p
                            /\ results[k].vals[f] = ValueOf(i, last).value

\* a row whose date and type are both unknown, under the date_format and the
\* lookup that both write "date": one entry for "date", holding the null of
\* the lookup, and the RowErrors of all three mappings
C26_Witness ==
    /\ mapping = mapDuplicateFailing
    /\ pc = "done"
    /\ rows = <<Row(sBadDate, sSELL)>>
    /\ results = <<[keys |-> <<"date", "type">>,
                    vals |-> ("date" :> None) @@ ("type" :> None)]>>
    /\ error_count = 3
    /\ errors[1].field = "date" /\ errors[1].error_message = "Date format error"
    /\ errors[2].field = "type"
    /\ errors[3].field = "date"
       /\ errors[3].error_message = "Lookup value not found in mapping table"

\* C27: for every filter rule the configuration interface allows, a rule
\* with operator in or not_in whose `values` is null included, should_skip
\* returns a boolean and does not raise
C27_ShouldSkipNeverRaises ==
    stage = "returned" => ret \in {"skip", "keep"}


(***************************************************************************)
(* The Field Transformer called on its own: every kind, on configurations  *)
(* that are null, of the wrong shape, empty or well-formed, and on         *)
(* conditions that are not texts.                                          *)
(***************************************************************************)
nFive == <<"int", 5, 1>>
entryNumberIf == (kIf :> nFive) @@ (kThen :> sA)

TransformKinds ==
    {"direct", "constant", "date_format", "lookup", "formula", "suffix",
     "prefix", "conditional", "unknown"}

\* the configurations tried under each kind: no object, a value of the
\* wrong shape, an empty object, and objects with the kind's own keys
ConfigsOf(kind) ==
    {NullDict, NotADict, Dict(<<>>)} \cup
    CASE kind = "constant" -> {Dict(kValue :> sDashUSD)}
      [] kind = "date_format" ->
            {Dict((kInputFormat :> fmtYearMonth) @@ (kOutputFormat :> fmtMonthYear))}
      [] kind = "lookup" -> {Dict(sBUY :> sB)}
      [] kind = "formula" ->
            {Dict(kExpression :> eDivisionByZero), Dict(kExpression :> None),
             Dict(kExpression :> eQuotedText)}
      [] kind \in {"suffix", "prefix"} ->
            {Dict((kValue :> sDashUSD) @@ (kCondition :> nFive)),
             Dict((kValue :> sDashUSD) @@ (kCondition :> condTypeIsBuy))}
      [] kind = "conditional" ->
            {Dict(kConditions :> NullList),
             Dict(kConditions :> List(<<entryNullIf>>)),
             Dict(kConditions :> List(<<entryNumberIf>>)),
             Dict(kConditions :> List(<<entryBuy>>))}
      [] OTHER -> {}

\* the column Type holds a text, nothing, or is cut off the row; the column
\* Date holds a date of the configured format or not; Fee does not exist
ValueRows == {Row(d, t) : d \in {sGoodDate, sBadDate}, t \in {sBUY, <<>>, None}}

ValueMappings ==
    UNION {{FieldMapping("out", source, kind, config) :
                source \in {cType, cDate, cFee, None}, config \in ConfigsOf(kind)} :
           kind \in TransformKinds}

InitValue == Ready(ValueRows, ValueMappings)

NextValue == CallTransformValue

SpecValue == InitValue /\ [][NextValue]_vars

(***************************************************************************)
(* Properties of the catch-all of transform_value.                         *)
(***************************************************************************)
\* the value the call read from the row
SourceValueRead ==
    IF arg_cfg.source_field # None /\ arg_cfg.source_field # <<>>
       /\ arg_cfg.source_field \in DOMAIN arg_row
    THEN arg_row[arg_cfg.source_field] ELSE None

\* the kind reads its configuration on this call
ReadsConfiguration ==
    \/ arg_cfg.transform_type \in {"constant", "lookup", "formula", "conditional"}
    \/ /\ arg_cfg.transform_type \in {"date_format", "suffix", "prefix"}
       /\ SourceValueRead \notin {None, <<>>}

\* a first entry of the conditional list whose condition is not a text
FirstConditionIsNoText ==
    LET conditions == arg_cfg.transform_config.d[kConditions]
    IN  \/ conditions.tag = "null"
        \/ /\ conditions.items # <<>>
           /\ kIf \in DOMAIN conditions.items[1]
           /\ \/ conditions.items[1][kIf] = None
              \/ conditions.items[1][kIf] = nFive

\* the call runs into an exception of the interpreter: a configuration that
\* is no object, a condition or an expression that is no text
ExceptionOccurs ==
    /\ ReadsConfiguration
    /\ \/ arg_cfg.transform_config.tag # "dict"
       \/ /\ arg_cfg.transform_type \in {"suffix", "prefix"}
          /\ kCondition \in DOMAIN arg_cfg.transform_config.d
          /\ arg_cfg.transform_config.d[kCondition] = nFive
       \/ /\ arg_cfg.transform_type = "formula"
          /\ kExpression \in DOMAIN arg_cfg.transform_config.d
          /\ arg_cfg.transform_config.d[kExpression] = None
       \/ /\ arg_cfg.transform_type = "conditional"
          /\ kConditions \in DOMAIN arg_cfg.transform_config.d
          /\ FirstConditionIsNoText

\* the error of the call, if any, names the mapping's destination field, the
\* line number passed, the value read and the whole row
ErrorCarriesTheCall ==
    /\ Len(ret.error) <= 1
    /\ \A i \in 1..Len(ret.error) :
          /\ ret.error[i].field = arg_cfg.destination_field
          /\ ret.error[i].line_number = 0
          /\ ret.error[i].row_data = arg_row

MessageIs(text) == ret.error # <<>> /\ ret.error[1].error_message = text

\* C28 as stated: transform_value never raises, and any exception that
\* occurs while transforming (the failed parse of a date included) ends in
\* an absent value and one RowError that carries the destination field, the
\* line number and the row.
C28_EveryExceptionGivesAbsent ==
    stage = "returned" =>
        /\ ErrorCarriesTheCall
        /\ ExceptionOccurs => MessageIs("Unexpected error")
        /\ (\/ MessageIs("Unexpected error")
            \/ MessageIs("Date format error")
            \/ MessageIs("Formula evaluation failed")) => ret.value = None

\* C28 amended: transform_value never raises and returns at most one
\* RowError, which carries the destination field, the line number and the
\* row; an exception outside the parse of a date ends in an absent value and
\* the error "Unexpected error", which nothing else produces; a failed
\* formula ends in an absent value too; a date that does not parse ends in
\* the source value itself, not in an absent value.
C28_ExceptionsBecomeRowErrors ==
    stage = "returned" =>
        /\ ErrorCarriesTheCall
        /\ ExceptionOccurs <=> MessageIs("Unexpected error")
        /\ MessageIs("Unexpected error") =>
              /\ ret.value = None
              /\ ret.error[1].source_value = SourceValueRead
        /\ MessageIs("Formula evaluation failed") => ret.value = None
        /\ MessageIs("Date format error") =>
              /\ ret.value = SourceValueRead
              /\ ret.value # None

\* a suffix whose condition is the number 5, on a row that has the source
\* value BUY, has ended in an absent value and the unexpected error
C28_Witness ==
    /\ stage = "returned"
    /\ arg_cfg.transform_type = "suffix"
    /\ arg_cfg.transform_config.tag = "dict"
    /\ kCondition \in DOMAIN arg_cfg.transform_config.d
    /\ arg_cfg.transform_config.d[kCondition] = nFive
    /\ SourceValueRead = sBUY
    /\ ret.value = None
    /\ MessageIs("Unexpected error")
    /\ ret.error[1].row_data = arg_row


(***************************************************************************)
(* Properties of the write gate on an empty buffer.                        *)
(***************************************************************************)
\* the pass is over: it has returned a result or an exception has left it
PassEnded == pc \in {"done", "read_failed", "raised"}

OutputWrittenLogged ==
    \E k \in 1..Len(log_messages) : log_messages[k][1] = "output_written"

\* C29: when a transform_file pass ends with an empty output buffer, no
\* output table is created or overwritten (the file at output_path is what
\* it was before the pass) and no 'Output written' line is logged, whatever
\* error_count and fail_on_error are.
C29_EmptyBufferLeavesOutputAlone ==
    (PassEnded /\ ~dry_run /\ results = <<>>) =>
        /\ output = output_before
        /\ ~OutputWrittenLogged

\* a transformation over an existing output file has ended with every row
\* failed as a whole, fail_on_error off, and the file as it was
C29_Witness ==
    /\ pc = "done"
    /\ ~dry_run
    /\ ~fail_on_error
    /\ rows # <<>>
    /\ error_count = Len(rows)
    /\ results = <<>>
    /\ output_before = OldFile
    /\ output = OldFile


(***************************************************************************)
(* Properties of a condition over a field the row does not hold.           *)
(***************************************************************************)
\* the field the condition names is missing from the row or null in it
ConditionFieldAbsent ==
    LET field == GrammarParse(Strip(arg_cfg)).field
    IN  field \notin DOMAIN arg_row \/ arg_row[field] = None

\* C30: a condition of the grammar whose field is absent from the row, or
\* present with a null value, evaluates to false under == and under in, and
\* to true under !=, whatever the literal is
C30_AbsentFieldEqualsNothing ==
    (/\ ConditionEvaluated
     /\ GrammarParse(Strip(arg_cfg)).form # "none"
     /\ ConditionFieldAbsent) =>
        /\ ~ret.raised
        /\ ret.value = (GrammarParse(Strip(arg_cfg)).form = "!=")

=============================================================================
